---- MODULE Spec2Model ----
(***************************************************************************)
(* Model of the Pump.fun indexer worker: the event parser                  *)
(* (helius/parser.rs), the state reconciler process_and_save               *)
(* (helius/fetcher.rs) and the persistence operations (models/queries.rs). *)
(*                                                                         *)
(* Units.  Native amounts are counted in units of LAMPORTS_PER_SOL         *)
(* (10^9 lamports), token amounts in units of 10^12 base units, so that    *)
(* the program's constants fit the model checker's integers.  A Decimal    *)
(* is a fixed-point number with DEC_SCALE fractional units per unit; an    *)
(* Option is a sequence of length 0 (None) or 1 (Some).                    *)
(***************************************************************************)
EXTENDS Integers, Sequences, FiniteSets, TLC

\* ------------------------------------------------------------------------
\* Bounds of the model
\* ------------------------------------------------------------------------
MaxDeliveries == 2
MaxFaults == 1
MaxClock == 1

\* ------------------------------------------------------------------------
\* Program constants
\* ------------------------------------------------------------------------
PUMP_FUN_PROGRAM_ID == "6EF8rrecthR5Dkzon8Nwu78hRvfCKubJ14M5uBEwF6P"
SOL_MINT == "So11111111111111111111111111111111111111112"
SYSTEM_PROGRAM == "11111111111111111111111111111111"
TOKEN_PROGRAM == "TokenkegQfeZyiNwAJbNbGKPFXCWuBvf9Ss623VQ5DA"
ASSOCIATED_TOKEN_PROGRAM == "ATokenGPvbdGVxr1b2hvZbsiqW5xWH25efTNsLJA8knL"
RENT_PROGRAM == "SysvarRent111111111111111111111111111111111"
EVENT_AUTHORITY == "Ce6TQqeHC9p8KetsN6JsjHK7UTZk7nasjjnr7XxXp9F1"

\* 30 * LAMPORTS_PER_SOL, in units of LAMPORTS_PER_SOL
VIRTUAL_SOL_OFFSET == 30
\* 85_000_000_000 lamports, in units of LAMPORTS_PER_SOL
BONDING_COMPLETE_SOL == 85
\* 1_000_000_000_000_000 base units, in units of 10^12 base units
TOKEN_TOTAL_SUPPLY == 1000
\* fractional units of the fixed-point Decimal of the model
DEC_SCALE == 100
\* Decimal::from(100)
HUNDRED == 100

\* ------------------------------------------------------------------------
\* Option and small helpers
\* ------------------------------------------------------------------------
None == << >>
Some(v) == << v >>
IsSome(o) == Len(o) = 1
IsNone(o) == Len(o) = 0
Unwrap(o) == o[1]

Abs(n) == IF n < 0 THEN 0 - n ELSE n

\* Decimal of an integer, Decimal division and multiplication (fixed point).
Dec(n) == n * DEC_SCALE
DecDiv(a, b) == (a * DEC_SCALE) \div b
DecMul(a, b) == (a * b) \div DEC_SCALE

\* str::parse::<i64>().unwrap_or(0) and str::parse::<u64>().unwrap_or(0): an
\* amount string of the model is an integer (its decimal text) or anything
\* else (text that does not parse).
ParseI64(s) == IF s \in Int THEN s ELSE 0
ParseU64(s) == IF s \in Int /\ s >= 0 THEN s ELSE 0

\* Iterator::position / Iterator::find: the first (1-based) index of seq whose
\* element satisfies P, 0 if there is none.
FirstIndex(seq, P(_)) ==
    IF \E i \in DOMAIN seq : P(seq[i])
    THEN CHOOSE i \in DOMAIN seq : P(seq[i]) /\ \A j \in 1..(i - 1) : ~P(seq[j])
    ELSE 0

\* Vec::get(i).copied().unwrap_or(0), i a 0-based index
GetOr0(seq, i) == IF (i + 1) \in DOMAIN seq THEN seq[i + 1] ELSE 0

\* ------------------------------------------------------------------------
\* Event parser (helius/parser.rs)
\* ------------------------------------------------------------------------
\* the program is looked for among the accounts the transaction mentions
IsPumpFun_Mentioned(tx) ==
    \E i \in DOMAIN tx.account_keys : tx.account_keys[i].pubkey = PUMP_FUN_PROGRAM_ID

IsPumpFun(tx) ==
    \E i \in DOMAIN tx.instructions : tx.instructions[i].program_id = PUMP_FUN_PROGRAM_ID

TokenBalances(o) == IF IsSome(o) THEN Unwrap(o) ELSE << >>

CalculateSolChange(meta, user_wallet, account_keys) ==
    LET IsUser(k) == k.pubkey = user_wallet
        idx == FirstIndex(account_keys, IsUser)
    IN  IF idx # 0
        THEN Abs(GetOr0(meta.pre_balances, idx - 1) - GetOr0(meta.post_balances, idx - 1))
        ELSE 0

\* returns <<real_sol_reserves, real_token_reserves>>
FindBondingCurveReserves(meta, mint, user_account_index, account_keys) ==
    LET post == TokenBalances(meta.post_token_balances)
        IsCurve(p) == p.mint = mint /\ p.account_index # user_account_index
        c == FirstIndex(post, IsCurve)
    IN  IF c = 0 THEN << 0, 0 >>
        ELSE LET acct == post[c]
                 real_token_reserves == ParseU64(acct.amount)
             IN  IF IsNone(acct.owner) THEN << 0, 0 >>
                 ELSE LET IsOwner(k) == k.pubkey = Unwrap(acct.owner)
                          o == FirstIndex(account_keys, IsOwner)
                      IN  IF o = 0 THEN << 0, 0 >>
                          ELSE << GetOr0(meta.post_balances, o - 1), real_token_reserves >>

\* the signed delta computed the wrong way round
BalanceDiff_Reversed(pre_balances, post) ==
    LET Same(p) == p.account_index = post.account_index /\ p.mint = post.mint
        i == FirstIndex(pre_balances, Same)
        pre_amount == IF i = 0 THEN 0 ELSE ParseI64(pre_balances[i].amount)
    IN  pre_amount - ParseI64(post.amount)

\* The signed delta of a post-token-balance entry against its pre entry.
BalanceDiff(pre_balances, post) ==
    LET Same(p) == p.account_index = post.account_index /\ p.mint = post.mint
        i == FirstIndex(pre_balances, Same)
        pre_amount == IF i = 0 THEN 0 ELSE ParseI64(pre_balances[i].amount)
    IN  ParseI64(post.amount) - pre_amount

\* the scan does not stop at the first entry that changed: the last one wins
TradeEntry_Last(pre_balances, post_balances) ==
    LET IsTrade(p) == p.mint # SOL_MINT /\ BalanceDiff(pre_balances, p) # 0
    IN  IF \E i \in DOMAIN post_balances : IsTrade(post_balances[i])
        THEN CHOOSE i \in DOMAIN post_balances :
                /\ IsTrade(post_balances[i])
                /\ \A j \in (i + 1)..Len(post_balances) : ~IsTrade(post_balances[j])
        ELSE 0

\* The scan of the post entries: the (1-based) position of the entry the trade is read from,
\* 0 if the scan finds none.
TradeEntry(pre_balances, post_balances) ==
    LET IsTrade(p) == p.mint # SOL_MINT /\ BalanceDiff(pre_balances, p) # 0
    IN  FirstIndex(post_balances, IsTrade)

\* DateTime::from_timestamp(ts, 0).unwrap_or(Utc::now()) / Utc::now()
TradeTimestamp(tx, now) == IF IsSome(tx.block_time) THEN Unwrap(tx.block_time) ELSE now

\* Result<Option<Trade>>: [tag |-> "Err"], [tag |-> "None"] or
\* [tag |-> "Some", trade |-> ...]
ParsePumpFunTransaction(tx, current_sol_price, now) ==
    IF Len(tx.signatures) = 0 THEN [tag |-> "Err"]
    ELSE IF ~IsPumpFun(tx) THEN [tag |-> "None"]
    ELSE IF IsNone(tx.meta) THEN [tag |-> "None"]
    ELSE
      LET meta == Unwrap(tx.meta)
          post_balances == TokenBalances(meta.post_token_balances)
          pre_balances == TokenBalances(meta.pre_token_balances)
          i == TradeEntry(pre_balances, post_balances)
      IN  IF i = 0 THEN [tag |-> "None"]
          ELSE
            LET post == post_balances[i]
                diff == BalanceDiff(pre_balances, post)
                user_wallet == IF IsSome(post.owner) THEN Unwrap(post.owner) ELSE ""
                is_buy == diff > 0
                reserves == FindBondingCurveReserves(meta, post.mint, post.account_index,
                                                     tx.account_keys)
                decimal_token == Dec(Abs(diff))
                decimal_sol == Dec(CalculateSolChange(meta, user_wallet, tx.account_keys))
                price_sol == IF decimal_token # 0 THEN DecDiv(decimal_sol, decimal_token) ELSE 0
            IN  [tag |-> "Some",
                 trade |-> [signature |-> tx.signatures[1],
                            token_mint |-> post.mint,
                            sol_amount |-> decimal_sol,
                            token_amount |-> decimal_token,
                            is_buy |-> is_buy,
                            user_wallet |-> user_wallet,
                            timestamp |-> TradeTimestamp(tx, now),
                            virtual_sol_reserves |-> Dec(reserves[1] + VIRTUAL_SOL_OFFSET),
                            virtual_token_reserves |-> Dec(reserves[2]),
                            price_sol |-> Some(price_sol),
                            price_usd |-> Some(DecMul(price_sol, Dec(current_sol_price))),
                            track_volume |-> TRUE,
                            ix_name |-> IF is_buy THEN "buy" ELSE "sell",
                            slot |-> tx.slot]]

\* A log line is a text: the sequence of its characters.
WHITESPACE == {" ", "\t", "\n", "\r"}

\* str::find: the 1-based position of the first occurrence of pat, 0 for none
Find(text, pat) ==
    LET hits == {i \in 1..(Len(text) - Len(pat) + 1) :
                    SubSeq(text, i, i + Len(pat) - 1) = pat}
    IN  IF hits = {} THEN 0 ELSE CHOOSE i \in hits : \A j \in hits : i <= j

\* str::starts_with
StartsWith(text, pat) == Len(pat) <= Len(text) /\ SubSeq(text, 1, Len(pat)) = pat

\* str::trim
Trim(text) ==
    LET solid == {i \in DOMAIN text : text[i] \notin WHITESPACE}
    IN  IF solid = {} THEN << >>
        ELSE SubSeq(text, CHOOSE i \in solid : \A j \in solid : i <= j,
                          CHOOSE i \in solid : \A j \in solid : j <= i)

\* split(seps).next(): the text before the first separator
SplitFirst(text, seps) ==
    LET cuts == {i \in DOMAIN text : text[i] \in seps}
    IN  IF cuts = {} THEN text
        ELSE SubSeq(text, 1, (CHOOSE i \in cuts : \A j \in cuts : i <= j) - 1)

NAME_LOWER == << "n", "a", "m", "e", ":" >>
NAME_CAPITAL == << "N", "a", "m", "e", ":" >>
SYMBOL_LOWER == << "s", "y", "m", "b", "o", "l", ":" >>
SYMBOL_CAPITAL == << "S", "y", "m", "b", "o", "l", ":" >>
URI_LOWER == << "u", "r", "i", ":" >>
URI_CAPITAL == << "U", "r", "i", ":" >>
METADATA_LOWER == << "m", "e", "t", "a", "d", "a", "t", "a", ":" >>
PREFIX_HTTP == << "h", "t", "t", "p" >>
PREFIX_IPFS == << "i", "p", "f", "s" >>
PREFIX_AR == << "a", "r", ":", "/", "/" >>

\* log.find(k1).or_else(|| log.find(k2))...: the position of the first key, in
\* the order of keys, that occurs in the line
FindKey(line, keys) ==
    LET Hit(k) == Find(line, k) # 0
        ki == FirstIndex(keys, Hit)
    IN  IF ki = 0 THEN 0 ELSE Find(line, keys[ki])

\* the text after the key at pos, trimmed, up to the first separator, trimmed
ValueAfter(line, start, seps) ==
    Trim(SplitFirst(Trim(SubSeq(line, start, Len(line))), seps))

KEYS_NAME == << NAME_LOWER, NAME_CAPITAL >>
KEYS_SYMBOL == << SYMBOL_LOWER, SYMBOL_CAPITAL >>
KEYS_URI == << URI_LOWER, URI_CAPITAL, METADATA_LOWER >>

ScanName(line, seps) ==
    LET pos == FindKey(line, KEYS_NAME)
        value == ValueAfter(line, pos + 5, seps)
    IN  IF pos # 0 /\ value # << >> /\ Len(value) < 100 THEN Some(value) ELSE None

ScanSymbol(line, seps) ==
    LET pos == FindKey(line, KEYS_SYMBOL)
        value == ValueAfter(line, pos + 7, seps)
    IN  IF pos # 0 /\ value # << >> /\ Len(value) < 20 THEN Some(value) ELSE None

ScanUri(line, seps) ==
    LET pos == FindKey(line, KEYS_URI)
        start == pos + (IF StartsWith(SubSeq(line, pos, Len(line)), METADATA_LOWER)
                        THEN 9 ELSE 4)
        value == ValueAfter(line, start, seps)
    IN  IF pos # 0 /\ (\/ StartsWith(value, PREFIX_HTTP)
                       \/ StartsWith(value, PREFIX_IPFS)
                       \/ StartsWith(value, PREFIX_AR))
        THEN Some(value) ELSE None

\* the separators of extract_metadata_from_logs (parser.rs) ...
LogsNameSeps == {","}
LogsUriSeps == WHITESPACE
\* ... and of extract_token_metadata_from_tx (fetcher.rs)
TxNameSeps == {",", "\"", "}"}
TxUriSeps == {" ", ",", "\"", "}"}

LogsScanName(line) == ScanName(line, LogsNameSeps)
LogsScanSymbol(line) == ScanSymbol(line, LogsNameSeps)
LogsScanUri(line) == ScanUri(line, LogsUriSeps)
TxScanName(line) == ScanName(line, TxNameSeps)
TxScanSymbol(line) == ScanSymbol(line, TxNameSeps)
TxScanUri(line) == ScanUri(line, TxUriSeps)

\* The value of the last line of logs on which Scan finds one (parser.rs:
\* every matching line overwrites the field).
LastScan(logs, Scan(_)) ==
    LET hits == {i \in DOMAIN logs : IsSome(Scan(logs[i]))}
    IN  IF hits = {} THEN None
        ELSE Scan(logs[CHOOSE i \in hits : \A j \in hits : j <= i])

\* The value of the first line of logs on which Scan finds one (fetcher.rs:
\* a field is only assigned while it is still none).
FirstScan(logs, Scan(_)) ==
    LET Hit(l) == IsSome(Scan(l))
        i == FirstIndex(logs, Hit)
    IN  IF i = 0 THEN None ELSE Scan(logs[i])

\* returns <<name, symbol, uri>>
ExtractMetadataFromLogs(meta) ==
    IF IsSome(meta.log_messages)
    THEN LET logs == Unwrap(meta.log_messages)
         IN  << LastScan(logs, LogsScanName), LastScan(logs, LogsScanSymbol),
                LastScan(logs, LogsScanUri) >>
    ELSE << None, None, None >>

\* the candidate test without the test of the length of the address
BondingCurveCandidate_AnyLength(account, idx, mint_address) ==
    /\ account.writable /\ ~account.signer
    /\ account.pubkey \notin {mint_address, SYSTEM_PROGRAM, TOKEN_PROGRAM,
                              ASSOCIATED_TOKEN_PROGRAM, RENT_PROGRAM, EVENT_AUTHORITY,
                              SOL_MINT, PUMP_FUN_PROGRAM_ID}
    /\ idx >= 3 /\ idx <= 7
BondingCurveCandidate(account, idx, mint_address) ==
    /\ account.writable /\ ~account.signer
    /\ account.pubkey \notin {mint_address, SYSTEM_PROGRAM, TOKEN_PROGRAM,
                              ASSOCIATED_TOKEN_PROGRAM, RENT_PROGRAM, EVENT_AUTHORITY,
                              SOL_MINT, PUMP_FUN_PROGRAM_ID}
    /\ idx >= 3 /\ idx <= 7 /\ Len(account.pubkey) = 44

FindBondingCurveAddress(account_keys, mint_address) ==
    LET cands == {i \in DOMAIN account_keys :
                     BondingCurveCandidate(account_keys[i], i - 1, mint_address)}
    IN  IF cands = {} THEN None
        ELSE Some(account_keys[CHOOSE i \in cands : \A j \in cands : i <= j].pubkey)

\* is_new: no pre entry carries the mint of the post entry
IsNewMint_SameAccount(pre_balances, post) ==
    ~\E j \in DOMAIN pre_balances :
        /\ pre_balances[j].account_index = post.account_index
        /\ pre_balances[j].mint = post.mint
IsNewMint(pre_balances, post) ==
    ~\E j \in DOMAIN pre_balances : pre_balances[j].mint = post.mint

\* Option<Token> (the Result is never an error)
ParseTokenCreation(tx) ==
    IF ~IsPumpFun(tx) THEN None
    ELSE IF IsNone(tx.meta) THEN None
    ELSE
      LET meta == Unwrap(tx.meta)
          post_balances == TokenBalances(meta.post_token_balances)
          pre_balances == TokenBalances(meta.pre_token_balances)
          IsNew(post) == IsNewMint(pre_balances, post) /\ post.mint # SOL_MINT
          i == FirstIndex(post_balances, IsNew)
      IN  IF i = 0 THEN None
          ELSE
            LET mint_address == post_balances[i].mint
                IsSigner(k) == k.signer
                s == FirstIndex(tx.account_keys, IsSigner)
                creator_wallet == IF s = 0 THEN "" ELSE tx.account_keys[s].pubkey
                md == ExtractMetadataFromLogs(meta)
                reserves == FindBondingCurveReserves(meta, mint_address, -1, tx.account_keys)
            IN  Some([mint_address |-> mint_address,
                      name |-> md[1],
                      symbol |-> md[2],
                      uri |-> md[3],
                      bonding_curve_address |->
                          FindBondingCurveAddress(tx.account_keys, mint_address),
                      creator_wallet |-> Some(creator_wallet),
                      virtual_token_reserves |-> Dec(reserves[2]),
                      virtual_sol_reserves |-> Dec(reserves[1] + VIRTUAL_SOL_OFFSET),
                      real_token_reserves |-> Dec(reserves[2]),
                      token_total_supply |-> Dec(TOKEN_TOTAL_SUPPLY),
                      market_cap_usd |-> 0,
                      bonding_curve_progress |-> 0,
                      complete |-> FALSE])

\* ------------------------------------------------------------------------
\* Helpers of the reconciler (helius/fetcher.rs)
\* ------------------------------------------------------------------------
\* returns <<name, symbol, uri>>
ExtractTokenMetadataFromTx(tx) ==
    IF IsSome(tx.meta) /\ IsSome(Unwrap(tx.meta).log_messages)
    THEN LET logs == Unwrap(Unwrap(tx.meta).log_messages)
         IN  << FirstScan(logs, TxScanName), FirstScan(logs, TxScanSymbol),
                FirstScan(logs, TxScanUri) >>
    ELSE << None, None, None >>

FindBondingCurveFromTx(tx, mint_address) ==
    LET keys == tx.account_keys
        cands == {i \in DOMAIN keys : BondingCurveCandidate(keys[i], i - 1, mint_address)}
    IN  IF cands = {} THEN None
        ELSE Some(keys[CHOOSE i \in cands : \A j \in cands : i <= j].pubkey)

\* Decimal::from_f64(current_sol_price).unwrap_or(Decimal::ZERO)
SolPriceDec(current_sol_price) == Dec(current_sol_price)

\* (virtual_sol_reserves / virtual_token_reserves) * token_total_supply * sol_price
MarketCap(virtual_sol_reserves, virtual_token_reserves, token_total_supply, current_sol_price) ==
    DecMul(DecMul(DecDiv(virtual_sol_reserves, virtual_token_reserves), token_total_supply),
           SolPriceDec(current_sol_price))

\* The token of a creation event as it is handed to upsert_token.
CreatedToken(token, current_sol_price) ==
    IF token.virtual_token_reserves # 0
    THEN [token EXCEPT !.market_cap_usd =
              MarketCap(token.virtual_sol_reserves, token.virtual_token_reserves,
                        token.token_total_supply, current_sol_price)]
    ELSE token

\* The row synthesized from a trade when get_token yields no row.
SynthesizedToken(tx, trade) ==
    LET md == ExtractTokenMetadataFromTx(tx)
    IN  [mint_address |-> trade.token_mint,
         name |-> md[1],
         symbol |-> md[2],
         uri |-> md[3],
         bonding_curve_address |-> FindBondingCurveFromTx(tx, trade.token_mint),
         creator_wallet |-> Some(trade.user_wallet),
         virtual_token_reserves |-> trade.virtual_token_reserves,
         virtual_sol_reserves |-> trade.virtual_sol_reserves,
         real_token_reserves |-> 0,
         token_total_supply |-> Dec(TOKEN_TOTAL_SUPPLY),
         market_cap_usd |-> 0,
         bonding_curve_progress |-> 0,
         complete |-> FALSE]

\* (trade.virtual_sol_reserves / bonding_complete_sol) * 100
BondingCurveProgress(virtual_sol_reserves) ==
    DecMul(DecDiv(virtual_sol_reserves, Dec(BONDING_COMPLETE_SOL)), Dec(HUNDRED))

\* name/symbol/uri backfill: a field still none takes the value of this tx.
BackfillMetadata(token, tx) ==
    IF IsNone(token.name) \/ IsNone(token.symbol) \/ IsNone(token.uri)
    THEN LET md == ExtractTokenMetadataFromTx(tx)
         IN  [token EXCEPT
                !.name = IF IsNone(@) /\ IsSome(md[1]) THEN md[1] ELSE @,
                !.symbol = IF IsNone(@) /\ IsSome(md[2]) THEN md[2] ELSE @,
                !.uri = IF IsNone(@) /\ IsSome(md[3]) THEN md[3] ELSE @]
    ELSE token

BackfillBondingCurve(token, tx, trade) ==
    IF IsNone(token.bonding_curve_address)
    THEN [token EXCEPT !.bonding_curve_address = FindBondingCurveFromTx(tx, trade.token_mint)]
    ELSE token

\* reserves, market cap, progress and completion from the trade
UpdateReserves(token, trade, current_sol_price) ==
    LET t1 == [token EXCEPT !.virtual_sol_reserves = trade.virtual_sol_reserves,
                            !.virtual_token_reserves = trade.virtual_token_reserves]
    IN  IF trade.virtual_token_reserves # 0
        THEN LET progress == BondingCurveProgress(trade.virtual_sol_reserves)
             IN  [t1 EXCEPT
                    !.market_cap_usd =
                        MarketCap(trade.virtual_sol_reserves, trade.virtual_token_reserves,
                                  token.token_total_supply, current_sol_price),
                    !.bonding_curve_progress = progress,
                    !.complete = IF progress >= Dec(HUNDRED) THEN TRUE ELSE @]
        ELSE t1

\* The token handed to upsert_token after a trade; got is what the match on
\* get_token sees: Some(row), or None for Ok(None) and for Err(_).
TokenFromTrade(got, tx, trade, current_sol_price) ==
    LET base == IF IsSome(got) THEN Unwrap(got) ELSE SynthesizedToken(tx, trade)
    IN  UpdateReserves(BackfillBondingCurve(BackfillMetadata(base, tx), tx, trade),
                       trade, current_sol_price)

\* got is what `if let Ok(Some(holder))` sees.
CurrentBalance(got) == IF IsSome(got) THEN Unwrap(got).balance ELSE 0

NewBalance_SignSlip(trade, current_balance) ==
    IF trade.is_buy THEN current_balance - trade.token_amount
    ELSE IF current_balance >= trade.token_amount
         THEN current_balance - trade.token_amount
         ELSE 0

NewBalance(trade, current_balance) ==
    IF trade.is_buy THEN current_balance + trade.token_amount
    ELSE IF current_balance >= trade.token_amount
         THEN current_balance - trade.token_amount
         ELSE 0

HolderIsWritten(trade, new_balance) == new_balance > 0 \/ trade.is_buy

HolderOf(trade, new_balance) ==
    [token_mint |-> trade.token_mint,
     user_wallet |-> trade.user_wallet,
     balance |-> new_balance,
     last_updated_slot |-> trade.slot]

\* ------------------------------------------------------------------------
\* Persistence operations (models/queries.rs).  A table is the set of its
\* rows; the columns the store fills in itself (created_at, updated_at) are
\* left out.
\* ------------------------------------------------------------------------
GetToken(tokens, mint_address) ==
    IF \E r \in tokens : r.mint_address = mint_address
    THEN Some(CHOOSE r \in tokens : r.mint_address = mint_address)
    ELSE None

\* an update that keeps the stored reserves
UpsertToken_KeepsReserves(tokens, token) ==
    LET old == GetToken(tokens, token.mint_address)
    IN  IF IsNone(old) THEN tokens \cup {token}
        ELSE (tokens \ {Unwrap(old)}) \cup
             {[token EXCEPT !.bonding_curve_address = Unwrap(old).bonding_curve_address,
                            !.creator_wallet = Unwrap(old).creator_wallet,
                            !.virtual_sol_reserves = Unwrap(old).virtual_sol_reserves,
                            !.virtual_token_reserves = Unwrap(old).virtual_token_reserves]}
\* an update of every column
UpsertToken_EveryColumn(tokens, token) ==
    LET old == GetToken(tokens, token.mint_address)
    IN  IF IsNone(old) THEN tokens \cup {token} ELSE (tokens \ {Unwrap(old)}) \cup {token}
\* INSERT ... ON CONFLICT (mint_address) DO UPDATE SET <all but
\* bonding_curve_address and creator_wallet>
UpsertToken(tokens, token) ==
    LET old == GetToken(tokens, token.mint_address)
    IN  IF IsNone(old) THEN tokens \cup {token}
        ELSE (tokens \ {Unwrap(old)}) \cup
             {[token EXCEPT !.bonding_curve_address = Unwrap(old).bonding_curve_address,
                            !.creator_wallet = Unwrap(old).creator_wallet]}

SameTradeKey(a, b) == a.timestamp = b.timestamp /\ a.signature = b.signature

InsertTrade_Overwrite(trades, trade) ==
    {r \in trades : ~SameTradeKey(r, trade)} \cup {trade}

\* INSERT ... ON CONFLICT (timestamp, signature) DO NOTHING
InsertTrade(trades, trade) ==
    IF \E r \in trades : SameTradeKey(r, trade) THEN trades ELSE trades \cup {trade}

GetTokenHolder(holders, mint_address, wallet) ==
    IF \E r \in holders : r.token_mint = mint_address /\ r.user_wallet = wallet
    THEN Some(CHOOSE r \in holders : r.token_mint = mint_address /\ r.user_wallet = wallet)
    ELSE None

UpsertTokenHolder_Unguarded(holders, holder) ==
    LET old == GetTokenHolder(holders, holder.token_mint, holder.user_wallet)
    IN  IF IsNone(old) THEN holders \cup {holder}
        ELSE (holders \ {Unwrap(old)}) \cup {holder}

\* INSERT ... ON CONFLICT (token_mint, user_wallet) DO UPDATE ...
\* WHERE token_holders.last_updated_slot < EXCLUDED.last_updated_slot
UpsertTokenHolder(holders, holder) ==
    LET old == GetTokenHolder(holders, holder.token_mint, holder.user_wallet)
    IN  IF IsNone(old) THEN holders \cup {holder}
        ELSE IF Unwrap(old).last_updated_slot < holder.last_updated_slot
             THEN (holders \ {Unwrap(old)}) \cup {holder}
             ELSE holders

\* The whole of process_and_save on a store st = [trades, tokens, holders]
\* when no persistence operation fails: the composition of the steps below.
ApplyCreation(st, tx, current_sol_price) ==
    LET c == ParseTokenCreation(tx)
    IN  IF IsSome(c)
        THEN [st EXCEPT !.tokens = UpsertToken(@, CreatedToken(Unwrap(c), current_sol_price))]
        ELSE st

ApplyTrade(st, tx, trade, current_sol_price) ==
    LET st1 == [st EXCEPT !.trades = InsertTrade(@, trade)]
        token == TokenFromTrade(GetToken(st1.tokens, trade.token_mint), tx, trade,
                                current_sol_price)
        st2 == [st1 EXCEPT !.tokens = UpsertToken(@, token)]
        new_balance ==
            NewBalance(trade, CurrentBalance(GetTokenHolder(st2.holders, trade.token_mint,
                                                            trade.user_wallet)))
    IN  IF HolderIsWritten(trade, new_balance)
        THEN [st2 EXCEPT !.holders = UpsertTokenHolder(@, HolderOf(trade, new_balance))]
        ELSE st2

ProcessAndSave(st, tx, current_sol_price, now) ==
    LET st1 == ApplyCreation(st, tx, current_sol_price)
        parsed == ParsePumpFunTransaction(tx, current_sol_price, now)
    IN  IF parsed.tag = "Some" THEN ApplyTrade(st1, tx, parsed.trade, current_sol_price)
        ELSE st1

\* ------------------------------------------------------------------------
\* The transactions the RPC endpoint can return
\* ------------------------------------------------------------------------
WALLET_A == "WalletA1111111111111111111111111111111111111"
MINT_A == "MintA111111111111111111111111111111111111111"
USER_ATA == "UserAta1111111111111111111111111111111111111"
CURVE_A == "CurveA11111111111111111111111111111111111111"
CURVE_ATA == "CurveAta111111111111111111111111111111111111"

Key(pubkey, signer, writable) == [pubkey |-> pubkey, signer |-> signer, writable |-> writable]

\* 0-based positions: wallet 0, mint 1, user token account 2, curve 3,
\* curve token account 4, system program 5, program of interest 6
AccountKeys ==
    << Key(WALLET_A, TRUE, TRUE), Key(MINT_A, FALSE, FALSE), Key(USER_ATA, FALSE, TRUE),
       Key(CURVE_A, FALSE, TRUE), Key(CURVE_ATA, FALSE, TRUE),
       Key(SYSTEM_PROGRAM, FALSE, FALSE), Key(PUMP_FUN_PROGRAM_ID, FALSE, FALSE) >>

\* the same accounts when the trade is routed through another program: the
\* programs and sysvars come first and the curve is at position 8, its token
\* account at position 9
RoutedAccountKeys ==
    << Key(WALLET_A, TRUE, TRUE), Key(MINT_A, FALSE, FALSE), Key(USER_ATA, FALSE, TRUE),
       Key(SYSTEM_PROGRAM, FALSE, FALSE), Key(TOKEN_PROGRAM, FALSE, FALSE),
       Key(ASSOCIATED_TOKEN_PROGRAM, FALSE, FALSE), Key(RENT_PROGRAM, FALSE, FALSE),
       Key(PUMP_FUN_PROGRAM_ID, FALSE, FALSE),
       Key(CURVE_A, FALSE, TRUE), Key(CURVE_ATA, FALSE, TRUE) >>

Tok(account_index, mint, amount, owner) ==
    [account_index |-> account_index, mint |-> mint, amount |-> amount, owner |-> Some(owner)]

Meta(pre_sol, post_sol, pre_tok, post_tok, logs) ==
    Some([pre_balances |-> pre_sol, post_balances |-> post_sol,
          pre_token_balances |-> Some(pre_tok), post_token_balances |-> Some(post_tok),
          log_messages |-> logs])

MkTx(sig, slot, block_time, programs, meta) ==
    [slot |-> slot, block_time |-> block_time, signatures |-> << sig >>,
     account_keys |-> AccountKeys,
     instructions |-> [i \in DOMAIN programs |-> [program_id |-> programs[i]]],
     meta |-> meta]

\* the log text "Name: FooCoin, Symbol: FOO, uri: https://x/y.json"
EXAMPLE_LOG ==
    << "N", "a", "m", "e", ":", " ", "F", "o", "o", "C", "o", "i", "n", ",", " ",
       "S", "y", "m", "b", "o", "l", ":", " ", "F", "O", "O", ",", " ",
       "u", "r", "i", ":", " ", "h", "t", "t", "p", "s", ":", "/", "/", "x", "/", "y", ".", "j", "s", "o", "n" >>

MetadataLogs ==
    Some(<< EXAMPLE_LOG >>)

\* creation of MINT_A with a first buy of 4 by WALLET_A; no metadata in the logs
TxCreate ==
    MkTx("sigCreate", 1, Some(1), << SYSTEM_PROGRAM, PUMP_FUN_PROGRAM_ID >>,
         Meta(<< 10, 0, 0, 0, 0, 0, 0 >>, << 8, 0, 0, 2, 0, 0, 0 >>,
              << >>,
              << Tok(2, MINT_A, 4, WALLET_A), Tok(4, MINT_A, 996, CURVE_A) >>,
              None))

\* WALLET_A buys 3; the curve then holds 60 SOL; the logs carry the metadata
TxBuy ==
    MkTx("sigBuy", 2, Some(2), << PUMP_FUN_PROGRAM_ID >>,
         Meta(<< 100, 0, 0, 2, 0, 0, 0 >>, << 42, 0, 0, 60, 0, 0, 0 >>,
              << Tok(2, MINT_A, 4, WALLET_A), Tok(4, MINT_A, 996, CURVE_A) >>,
              << Tok(2, MINT_A, 7, WALLET_A), Tok(4, MINT_A, 993, CURVE_A) >>,
              MetadataLogs))

\* WALLET_A sells 5; the curve then holds 10 SOL
TxSell ==
    MkTx("sigSell", 3, Some(3), << PUMP_FUN_PROGRAM_ID >>,
         Meta(<< 42, 0, 0, 60, 0, 0, 0 >>, << 92, 0, 0, 10, 0, 0, 0 >>,
              << Tok(2, MINT_A, 7, WALLET_A), Tok(4, MINT_A, 993, CURVE_A) >>,
              << Tok(2, MINT_A, 2, WALLET_A), Tok(4, MINT_A, 998, CURVE_A) >>,
              Some(<< >>)))

\* WALLET_A buys 2 through a router; the RPC endpoint reports no block time
TxLate ==
    [MkTx("sigLate", 4, None, << PUMP_FUN_PROGRAM_ID >>,
          Meta(<< 92, 0, 0, 0, 0, 0, 0, 0, 10, 0 >>, << 82, 0, 0, 0, 0, 0, 0, 0, 20, 0 >>,
               << Tok(2, MINT_A, 2, WALLET_A), Tok(9, MINT_A, 998, CURVE_A) >>,
               << Tok(2, MINT_A, 4, WALLET_A), Tok(9, MINT_A, 996, CURVE_A) >>,
               None))
     EXCEPT !.account_keys = RoutedAccountKeys]

\* a token transfer that does not involve the program of interest
TxOther ==
    MkTx("sigOther", 5, Some(5), << SYSTEM_PROGRAM, TOKEN_PROGRAM >>,
         Meta(<< 82, 0, 0, 20, 0, 0, 0 >>, << 82, 0, 0, 20, 0, 0, 0 >>,
              << Tok(2, MINT_A, 4, WALLET_A) >>,
              << Tok(2, MINT_A, 1, WALLET_A) >>,
              None))

\* a second wallet
WALLET_B == "WalletB1111111111111111111111111111111111111"

\* WALLET_A buys 1 more in the slot of TxBuy; the curve then holds 62 SOL
TxTwin ==
    MkTx("sigTwin", 2, Some(2), << PUMP_FUN_PROGRAM_ID >>,
         Meta(<< 42, 0, 0, 60, 0, 0, 0 >>, << 40, 0, 0, 62, 0, 0, 0 >>,
              << Tok(2, MINT_A, 7, WALLET_A), Tok(4, MINT_A, 993, CURVE_A) >>,
              << Tok(2, MINT_A, 8, WALLET_A), Tok(4, MINT_A, 992, CURVE_A) >>,
              None))

\* WALLET_B buys the last 3 tokens of the curve, whose token account is left
\* with 0; the curve then holds 90 SOL
TxDrained ==
    [MkTx("sigDrained", 6, Some(6), << PUMP_FUN_PROGRAM_ID >>,
          Meta(<< 50, 0, 0, 82, 0, 0, 0 >>, << 42, 0, 0, 90, 0, 0, 0 >>,
               << Tok(4, MINT_A, 3, CURVE_A) >>,
               << Tok(2, MINT_A, 3, WALLET_B), Tok(4, MINT_A, 0, CURVE_A) >>,
               None))
     EXCEPT !.account_keys = [AccountKeys EXCEPT ![1] = Key(WALLET_B, TRUE, TRUE)]]

TxIds == {"sigCreate", "sigBuy", "sigSell", "sigLate", "sigOther"}

\* the signatures of the runs that look at the token row and at equal slots
StoreTxIds == {"sigCreate", "sigBuy", "sigTwin", "sigDrained"}

AllTxIds == TxIds \cup StoreTxIds

\* fetch_full_transaction, when it succeeds, for each signature
Tx(id) ==
    CASE id = "sigCreate" -> TxCreate
      [] id = "sigBuy" -> TxBuy
      [] id = "sigSell" -> TxSell
      [] id = "sigLate" -> TxLate
      [] id = "sigOther" -> TxOther
      [] id = "sigTwin" -> TxTwin
      [] id = "sigDrained" -> TxDrained

\* the SOL/USD quotes get_sol_price can return
Prices == {1, 2}

Workers == {"w1", "w2"}
\* run_worker handles one envelope at a time
SingleWorker == {"w1"}

\* ------------------------------------------------------------------------
\* State
\* ------------------------------------------------------------------------
VARIABLES
    trades,     \* table trades
    tokens,     \* table tokens
    holders,    \* table token_holders
    wk,         \* per worker: position in run_worker/process_and_save and its locals
    now,        \* the wall clock read by Utc::now()
    delivered,  \* per signature, the number of times the bus delivered it
    faults,     \* the number of failures of external calls so far
    hist,       \* the store before the current run of processings of one signature
    rs,         \* one call of fetch_full_transaction: its position, locals and endpoint
    px,         \* the price cache, its lock, the callers of get_sol_price and the clock
    pa,         \* one transaction handed to the parser, and what the parser returned
    ing,        \* the ingester: its reconnect loop, its connection and the tasks it spawned
    bus         \* the bus channel: what was published, the worker's subscription

\* the state of the components the worker's processing steps leave alone
aux == << rs, px, pa, ing, bus >>

vars == << trades, tokens, holders, wk, now, delivered, faults, hist, aux >>

Store == [trades |-> trades, tokens |-> tokens, holders |-> holders]

IdleLocals ==
    [pc |-> "idle", tx |-> "", price |-> 0, trade |-> None, token |-> None,
     current_balance |-> 0, new_balance |-> 0, faulted |-> FALSE, result |-> "none"]

\* fetch_full_transaction before it is called
ResolverIdle ==
    [pc |-> "idle", signature |-> "", script |-> << >>, attempt |-> 1, calls |-> 0,
     slept |-> << >>, result |-> "none", tx |-> ""]

\* Arc::new(RwLock::new(None))
EmptyCache == [some |-> FALSE, price |-> 0, updated_at |-> 0]

\* the callers of get_sol_price
PriceCallers == {"c1", "c2"}

CallerIdle ==
    [pc |-> "idle", started |-> 0, checked |-> None, seen_at |-> 0, price |-> 0, stamp |-> 0,
     todo |-> {}, nfetch |-> 0, result |-> None]

PriceIdle ==
    [cache |-> EmptyCache,
     lock |-> [readers |-> {}, writer |-> None],
     cl |-> [c \in PriceCallers |-> CallerIdle],
     clock |-> 0, calls |-> 0, fetches |-> 0,
     written |-> {}]

\* no transaction at the parser
ParserIdle ==
    [pc |-> "idle", tx |-> TxOther, current_sol_price |-> 0, trade |-> [tag |-> "None"],
     creation |-> None, curve |-> None, curve_from_tx |-> None,
     recipe |-> [field |-> "none", key |-> << >>, value |-> << >>, after |-> << >>],
     md_logs |-> << None, None, None >>, md_tx |-> << None, None, None >>]

\* run_websocket_test before its first connect: WebSocketClient::new, retry_count = 0
IngesterIdle ==
    [pc |-> "start", retry_count |-> 0, slept |-> << >>, subscription_id |-> None,
     ping |-> "none", alive |-> 0, pings |-> 0, handled |-> 0, last |-> [kind |-> "none"],
     tasks |-> << >>]

\* the channel before the worker has subscribed and before anything is published
BusIdle ==
    [subscribed |-> FALSE, published |-> 0, stream |-> << >>, received |-> << >>,
     busy |-> FALSE]

\* the store, the workers and their clock at the start
InitWorker ==
    /\ trades = {}
    /\ tokens = {}
    /\ holders = {}
    /\ wk = [w \in Workers |-> IdleLocals]
    /\ now = 0
    /\ delivered = [id \in AllTxIds |-> 0]
    /\ faults = 0
    /\ hist = [tx |-> "", price |-> 0, runs |-> 0, base |-> Store]

Init ==
    /\ rs = ResolverIdle
    /\ px = PriceIdle
    /\ pa = ParserIdle
    /\ ing = IngesterIdle
    /\ bus = BusIdle
    /\ InitWorker

RECURSIVE SumOver(_, _)
SumOver(f, S) ==
    IF S = {} THEN 0
    ELSE LET x == CHOOSE y \in S : TRUE IN f[x] + SumOver(f, S \ {x})

TotalDelivered == SumOver(delivered, AllTxIds)

\* process_and_save returns: Ok(()) or the error of the failed call
Finish(l, res) == [l EXCEPT !.pc = "idle", !.result = res]

\* run_worker on a failure confined to one envelope: the error is printed and
\* the loop goes on to the next stream.next()
OnEnvelopeError_Propagates(l) == [l EXCEPT !.pc = "stopped"]
OnEnvelopeError(l) == l

Failed(l) == OnEnvelopeError([Finish(l, "err") EXCEPT !.faulted = TRUE])

\* process_and_save when get_sol_price fails: the error is returned at once
PriceUnavailable_Swallowed(l) == Finish(l, "ok")
PriceUnavailable(l) == Failed(l)

\* payloads from which run_worker gets no signature: text that is not JSON, and
\* JSON without a "signature" string
UnusablePayloads == {"not_json", "no_signature"}

\* The synchronous code between the token-creation block and insert_trade:
\* parse_pump_fun_transaction and the match on its result.
AfterCreation(l, clock) ==
    LET parsed == ParsePumpFunTransaction(Tx(l.tx), l.price, clock)
    IN  IF parsed.tag = "Some"
        THEN [l EXCEPT !.pc = "insert_trade", !.trade = Some(parsed.trade)]
        ELSE Finish(l, "ok")

\* ------------------------------------------------------------------------
\* Actions: run_worker and the steps of process_and_save between two awaits
\* ------------------------------------------------------------------------
\* The bus delivers (or redelivers) a signature, the worker resolves it.
Receive(w, id) ==
    /\ wk[w].pc = "idle"
    /\ TotalDelivered < MaxDeliveries
    /\ delivered' = [delivered EXCEPT ![id] = @ + 1]
    /\ wk' = [wk EXCEPT ![w] = [IdleLocals EXCEPT !.pc = "price", !.tx = id]]
    /\ hist' = IF hist.tx = id
               THEN [hist EXCEPT !.runs = @ + 1]
               ELSE [tx |-> id, price |-> 0, runs |-> 1, base |-> Store]
    /\ UNCHANGED << trades, tokens, holders, now, faults, aux >>

\* The bus delivers a payload without a usable signature: nothing is resolved.
DropEnvelope(w, payload) ==
    /\ wk[w].pc = "idle"
    /\ faults < MaxFaults
    /\ faults' = faults + 1
    /\ wk' = [wk EXCEPT ![w] =
                OnEnvelopeError([IdleLocals EXCEPT !.tx = payload, !.faulted = TRUE,
                                                   !.result = "skipped"])]
    /\ UNCHANGED << trades, tokens, holders, now, delivered, hist, aux >>

\* The bus delivers a signature and fetch_full_transaction returns an error.
ResolveFails(w, id) ==
    /\ wk[w].pc = "idle"
    /\ TotalDelivered < MaxDeliveries
    /\ faults < MaxFaults
    /\ delivered' = [delivered EXCEPT ![id] = @ + 1]
    /\ faults' = faults + 1
    /\ wk' = [wk EXCEPT ![w] =
                OnEnvelopeError([IdleLocals EXCEPT !.tx = id, !.faulted = TRUE,
                                                   !.result = "err"])]
    /\ UNCHANGED << trades, tokens, holders, now, hist, aux >>

\* The subscription stream ends: the while loop is left and run_worker returns.
StreamEnds(w) ==
    /\ wk[w].pc = "idle"
    /\ wk' = [wk EXCEPT ![w].pc = "stopped"]
    /\ UNCHANGED << trades, tokens, holders, now, delivered, faults, hist, aux >>

\* get_sol_price, then parse_token_creation
GetSolPrice(w) ==
    /\ wk[w].pc = "price"
    /\ \/ /\ faults < MaxFaults
          /\ faults' = faults + 1
          /\ wk' = [wk EXCEPT ![w] = PriceUnavailable(@)]
          /\ UNCHANGED hist
       \/ \E p \in Prices :
            LET l == [wk[w] EXCEPT !.price = p]
                c == ParseTokenCreation(Tx(l.tx))
            IN  /\ wk' = [wk EXCEPT ![w] =
                            IF IsSome(c)
                            THEN [l EXCEPT !.pc = "upsert_created",
                                           !.token = Some(CreatedToken(Unwrap(c), p))]
                            ELSE AfterCreation(l, now)]
                /\ hist' = IF hist.runs = 1 THEN [hist EXCEPT !.price = p] ELSE hist
                /\ UNCHANGED faults
    /\ UNCHANGED << trades, tokens, holders, now, delivered, aux >>

\* upsert_token of the created token
UpsertCreated(w) ==
    /\ wk[w].pc = "upsert_created"
    /\ \/ /\ faults < MaxFaults
          /\ faults' = faults + 1
          /\ wk' = [wk EXCEPT ![w] = Failed(@)]
          /\ UNCHANGED tokens
       \/ /\ tokens' = UpsertToken(tokens, Unwrap(wk[w].token))
          /\ wk' = [wk EXCEPT ![w] = AfterCreation(@, now)]
          /\ UNCHANGED faults
    /\ UNCHANGED << trades, holders, now, delivered, hist, aux >>

\* insert_trade
InsertTradeStep(w) ==
    /\ wk[w].pc = "insert_trade"
    /\ \/ /\ faults < MaxFaults
          /\ faults' = faults + 1
          /\ wk' = [wk EXCEPT ![w] = Failed(@)]
          /\ UNCHANGED trades
       \/ /\ trades' = InsertTrade(trades, Unwrap(wk[w].trade))
          /\ wk' = [wk EXCEPT ![w].pc = "get_token"]
          /\ UNCHANGED faults
    /\ UNCHANGED << tokens, holders, now, delivered, hist, aux >>

\* get_token and the computation of the token to store
GetTokenStep(w) ==
    /\ wk[w].pc = "get_token"
    /\ LET l == wk[w]
           Next(got, bad) ==
               [l EXCEPT !.pc = "upsert_token",
                         !.faulted = @ \/ bad,
                         !.token = Some(TokenFromTrade(got, Tx(l.tx), Unwrap(l.trade), l.price))]
       IN  \/ /\ faults < MaxFaults
              /\ faults' = faults + 1
              /\ wk' = [wk EXCEPT ![w] = Next(None, TRUE)]
           \/ /\ wk' = [wk EXCEPT ![w] =
                           Next(GetToken(tokens, Unwrap(l.trade).token_mint), FALSE)]
              /\ UNCHANGED faults
    /\ UNCHANGED << trades, tokens, holders, now, delivered, hist, aux >>

\* upsert_token after a trade
UpsertTokenStep(w) ==
    /\ wk[w].pc = "upsert_token"
    /\ \/ /\ faults < MaxFaults
          /\ faults' = faults + 1
          /\ wk' = [wk EXCEPT ![w] = Failed(@)]
          /\ UNCHANGED tokens
       \/ /\ tokens' = UpsertToken(tokens, Unwrap(wk[w].token))
          /\ wk' = [wk EXCEPT ![w].pc = "get_holder"]
          /\ UNCHANGED faults
    /\ UNCHANGED << trades, holders, now, delivered, hist, aux >>

\* get_token_holder and the computation of the new balance
GetHolderStep(w) ==
    /\ wk[w].pc = "get_holder"
    /\ LET l == wk[w]
           trade == Unwrap(l.trade)
           Next(got, bad) ==
               LET current_balance == CurrentBalance(got)
                   new_balance == NewBalance(trade, current_balance)
                   l1 == [l EXCEPT !.current_balance = current_balance,
                                   !.new_balance = new_balance,
                                   !.faulted = @ \/ bad]
               IN  IF HolderIsWritten(trade, new_balance)
                   THEN [l1 EXCEPT !.pc = "upsert_holder"]
                   ELSE Finish(l1, "ok")
       IN  \/ /\ faults < MaxFaults
              /\ faults' = faults + 1
              /\ wk' = [wk EXCEPT ![w] = Next(None, TRUE)]
           \/ /\ wk' = [wk EXCEPT ![w] =
                           Next(GetTokenHolder(holders, trade.token_mint, trade.user_wallet),
                                FALSE)]
              /\ UNCHANGED faults
    /\ UNCHANGED << trades, tokens, holders, now, delivered, hist, aux >>

\* upsert_token_holder
UpsertHolderStep(w) ==
    /\ wk[w].pc = "upsert_holder"
    /\ \/ /\ faults < MaxFaults
          /\ faults' = faults + 1
          /\ wk' = [wk EXCEPT ![w] = Failed(@)]
          /\ UNCHANGED holders
       \/ /\ holders' = UpsertTokenHolder(holders,
                                          HolderOf(Unwrap(wk[w].trade), wk[w].new_balance))
          /\ wk' = [wk EXCEPT ![w] = Finish(@, "ok")]
          /\ UNCHANGED faults
    /\ UNCHANGED << trades, tokens, now, delivered, hist, aux >>

\* time passes
Tick ==
    /\ now < MaxClock
    /\ now' = now + 1
    /\ UNCHANGED << trades, tokens, holders, wk, delivered, faults, hist, aux >>

WorkerStep(w) ==
    \/ \E id \in TxIds : Receive(w, id)
    \/ \E payload \in UnusablePayloads : DropEnvelope(w, payload)
    \/ \E id \in TxIds : ResolveFails(w, id)
    \/ StreamEnds(w)
    \/ GetSolPrice(w)
    \/ UpsertCreated(w)
    \/ InsertTradeStep(w)
    \/ GetTokenStep(w)
    \/ UpsertTokenStep(w)
    \/ GetHolderStep(w)
    \/ UpsertHolderStep(w)

Next ==
    \/ \E w \in SingleWorker : WorkerStep(w)
    \/ Tick

Spec == Init /\ [][Next]_vars

\* the same worker on the signatures of StoreTxIds
StoreStep(w) ==
    \/ \E id \in StoreTxIds : Receive(w, id)
    \/ \E payload \in UnusablePayloads : DropEnvelope(w, payload)
    \/ \E id \in StoreTxIds : ResolveFails(w, id)
    \/ StreamEnds(w)
    \/ GetSolPrice(w)
    \/ UpsertCreated(w)
    \/ InsertTradeStep(w)
    \/ GetTokenStep(w)
    \/ UpsertTokenStep(w)
    \/ GetHolderStep(w)
    \/ UpsertHolderStep(w)

NextStore ==
    \/ \E w \in SingleWorker : StoreStep(w)
    \/ Tick

SpecStore == Init /\ [][NextStore]_vars

TypeOK ==
    /\ now \in 0..MaxClock
    /\ faults \in 0..MaxFaults
    /\ \A w \in Workers : wk[w].pc \in {"idle", "price", "upsert_created", "insert_trade",
                                         "get_token", "upsert_token", "get_holder",
                                         "upsert_holder", "stopped"}

\* ------------------------------------------------------------------------
\* Properties
\* ------------------------------------------------------------------------
StoredBalance(h, trade) ==
    CurrentBalance(GetTokenHolder(h, trade.token_mint, trade.user_wallet))

\* the slot of the trade is newer than the slot stored for its holder, if any
SlotIsNewer(h, trade) ==
    LET got == GetTokenHolder(h, trade.token_mint, trade.user_wallet)
    IN  IsNone(got) \/ Unwrap(got).last_updated_slot < trade.slot

ExpectedBalance(trade, n) ==
    IF trade.is_buy THEN n + trade.token_amount
    ELSE IF n - trade.token_amount > 0 THEN n - trade.token_amount ELSE 0

\* w completes the processing of a trade without any failed call
CompletesTrade(w) ==
    /\ wk[w].pc \in {"get_holder", "upsert_holder"}
    /\ wk'[w].pc = "idle"
    /\ wk'[w].result = "ok"
    /\ ~wk'[w].faulted

\* C1: when a trade whose slot is newer than the stored slot is applied to a
\* holder of stored balance N, the stored balance afterwards is N + B for a
\* buy of B and max(N - S, 0) for a sell of S.
C1_BalanceAfterTrade ==
    [][\A w \in Workers :
         (CompletesTrade(w) /\ SlotIsNewer(holders, Unwrap(wk[w].trade)))
         => StoredBalance(holders', Unwrap(wk[w].trade))
              = ExpectedBalance(Unwrap(wk[w].trade),
                                StoredBalance(holders, Unwrap(wk[w].trade)))]_vars

\* C2: every token holder row has a balance >= 0.
C2_BalanceNonNegative == \A r \in holders : r.balance >= 0

\* a sell of more than the holder's stored balance has been processed
C2_Witness ==
    \E w \in Workers :
        /\ wk[w].pc = "idle" /\ wk[w].result = "ok" /\ IsSome(wk[w].trade)
        /\ ~Unwrap(wk[w].trade).is_buy
        /\ wk[w].current_balance > 0
        /\ wk[w].current_balance < Unwrap(wk[w].trade).token_amount
        /\ IsSome(GetTokenHolder(holders, Unwrap(wk[w].trade).token_mint,
                                 Unwrap(wk[w].trade).user_wallet))

\* C3: the trade table holds at most one row per signature, and a stored
\* row is never modified or removed.
C3_OneTradePerSignature ==
    [][/\ \A r \in trades : r \in trades'
       /\ \A r1, r2 \in trades' : r1.signature = r2.signature => r1 = r2]_vars

\* C4: insert_trade of a trade whose (timestamp, signature) is already stored
\* succeeds and changes nothing; whenever it succeeds, exactly one row with
\* that key is stored and every row stored before is still there.
C4_InsertTradeIdempotent ==
    [][\A w \in Workers :
         (wk[w].pc = "insert_trade" /\ wk'[w].pc # "insert_trade" /\ faults' = faults)
         => LET trade == Unwrap(wk[w].trade)
            IN  /\ wk'[w].pc = "get_token"
                /\ \A r \in trades : r \in trades'
                /\ Cardinality({r \in trades' : SameTradeKey(r, trade)}) = 1
                /\ (\E r \in trades : SameTradeKey(r, trade)) => trades' = trades]_vars

\* a second insert with the same key and another content has been a no-op
C4_Witness ==
    \E w \in Workers :
        /\ wk[w].pc = "get_token"
        /\ Unwrap(wk[w].trade) \notin trades
        /\ \E r \in trades : SameTradeKey(r, Unwrap(wk[w].trade))

\* C5: upsert_token_holder with a slot older than the stored one leaves the
\* row unchanged, and the stored last_updated_slot of a row never decreases.
C5_StaleSlotRejected ==
    [][/\ \A r \in holders :
            LET got == GetTokenHolder(holders', r.token_mint, r.user_wallet)
            IN  IsSome(got) /\ Unwrap(got).last_updated_slot >= r.last_updated_slot
       /\ \A w \in Workers :
            (/\ wk[w].pc = "upsert_holder"
             /\ wk'[w].pc = "idle"
             /\ \E r \in holders :
                  /\ r.token_mint = Unwrap(wk[w].trade).token_mint
                  /\ r.user_wallet = Unwrap(wk[w].trade).user_wallet
                  /\ Unwrap(wk[w].trade).slot < r.last_updated_slot)
            => holders' = holders]_vars

\* an update with an older slot has been attempted and answered with success
C5_Witness ==
    \E w \in Workers :
        /\ wk[w].pc = "idle" /\ wk[w].result = "ok" /\ IsSome(wk[w].trade)
        /\ HolderIsWritten(Unwrap(wk[w].trade), wk[w].new_balance)
        /\ \E r \in holders :
             /\ r.token_mint = Unwrap(wk[w].trade).token_mint
             /\ r.user_wallet = Unwrap(wk[w].trade).user_wallet
             /\ Unwrap(wk[w].trade).slot < r.last_updated_slot
             /\ r.balance # wk[w].new_balance

\* C6: once a token row has complete = true, no trade or token-creation
\* event sets it back to false (stated for runs in which no call fails).
C6_CompleteNeverReverts ==
    [][faults' = 0 =>
         \A r \in tokens :
            r.complete => \E r2 \in tokens' : r2.mint_address = r.mint_address /\ r2.complete]_vars

\* C7: the bonding_curve_progress of every token row is within [0, 100].
C7_ProgressWithinBounds ==
    \A r \in tokens : r.bonding_curve_progress >= 0 /\ r.bonding_curve_progress <= Dec(HUNDRED)

\* C8: a name, symbol or uri that is stored non-null never becomes null.
C8_MetadataNeverCleared ==
    [][\A r \in tokens :
         \E r2 \in tokens' :
            /\ r2.mint_address = r.mint_address
            /\ IsSome(r.name) => IsSome(r2.name)
            /\ IsSome(r.symbol) => IsSome(r2.symbol)
            /\ IsSome(r.uri) => IsSome(r2.uri)]_vars

\* The store obtained by processing the signatures of ids one after the
\* other in slot order, starting from st.
RECURSIVE ProcessInSlotOrder(_, _)
ProcessInSlotOrder(st, ids) ==
    IF ids = {} THEN st
    ELSE LET id == CHOOSE i \in ids : \A j \in ids : Tx(i).slot <= Tx(j).slot
         IN  ProcessInSlotOrder(ProcessAndSave(st, Tx(id), 1, 0), ids \ {id})

EmptyStore == [trades |-> {}, tokens |-> {}, holders |-> {}]

\* C9: when each trade of a set has been delivered once and processed, the
\* holder balance is the one obtained by processing them in slot order.
C9_BalanceOrderIndependent ==
    (/\ \A w \in Workers : wk[w].pc = "idle"
     /\ faults = 0
     /\ \A id \in TxIds : delivered[id] <= 1)
    => LET ref == ProcessInSlotOrder(EmptyStore, {id \in TxIds : delivered[id] = 1})
       IN  \A r \in holders \cup ref.holders :
              CurrentBalance(GetTokenHolder(holders, r.token_mint, r.user_wallet))
                = CurrentBalance(GetTokenHolder(ref.holders, r.token_mint, r.user_wallet))

\* C10: when a signature is processed a second time, with the same price and
\* without failure, after a first processing that completed or failed, the
\* store is the one a single failure-free processing gives.
C10_ReprocessingIsIdempotent ==
    \A w \in Workers :
        (/\ wk[w].pc = "idle" /\ wk[w].result = "ok" /\ ~wk[w].faulted
         /\ hist.tx = wk[w].tx /\ hist.runs = 2 /\ hist.price = wk[w].price)
        => Store = ProcessAndSave(hist.base, Tx(wk[w].tx), wk[w].price,
                                  IF IsSome(wk[w].trade)
                                  THEN Unwrap(wk[w].trade).timestamp ELSE now)

\* ------------------------------------------------------------------------
\* fetch_full_transaction (the resolver)
\* ------------------------------------------------------------------------
\* for attempt in 1..=3
MAX_ATTEMPTS == 3

\* Duration::from_millis(500 * attempt)
NULL_RETRY_DELAY_MS == 500

\* Duration::from_secs(attempt), in milliseconds
SECOND_MS == 1000

workerVars == << trades, tokens, holders, wk, now, delivered, faults, hist >>

\* what the endpoint can answer to one getTransaction request:
\*   send_error   the request fails in transport
\*   http_429     status 429
\*   bad_body     a body that is not JSON
\*   null_result  {"result": null}
\*   rpc_error    {"error": {...}}, no result field
\*   valid_result {"result": <a transaction>}
\*   bad_result   {"result": <a value that is not a transaction>}
Responses ==
    {"send_error", "http_429", "bad_body", "null_result", "rpc_error", "valid_result",
     "bad_result"}

\* the answers of the endpoint to the successive requests of one call; one more than the loop
\* can consume
ScriptLen == MAX_ATTEMPTS + 1

Scripts == [1..ScriptLen -> Responses]

\* the signature asked for (it only travels in the request)
Signatures == {"sigLate"}

\* the loop stops one round early
LoopContinues_Exclusive(attempt) == attempt < MAX_ATTEMPTS

\* the loop goes one round further
LoopContinues_OneMore(attempt) == attempt <= MAX_ATTEMPTS + 1

\* the range of the retry loop
LoopContinues(attempt) == attempt <= MAX_ATTEMPTS

\* status 429 is handed to the caller as an error instead of being retried
Attempt_RateLimitFails(resp, attempt) ==
    CASE resp \in {"send_error", "http_429"} ->
            [pc |-> "done", result |-> "err_transport", ms |-> 0]
      [] resp = "bad_body" -> [pc |-> "done", result |-> "err_decode", ms |-> 0]
      [] resp = "valid_result" -> [pc |-> "done", result |-> "ok", ms |-> 0]
      [] resp = "bad_result" -> [pc |-> "done", result |-> "err_decode", ms |-> 0]
      [] resp \in {"null_result", "rpc_error"} ->
            [pc |-> "sleep", result |-> "none", ms |-> NULL_RETRY_DELAY_MS * attempt]

\* the body of the retry loop for one response: return a result, or sleep and go round
Attempt(resp, attempt) ==
    CASE resp = "send_error" -> [pc |-> "done", result |-> "err_transport", ms |-> 0]
      [] resp = "http_429" -> [pc |-> "sleep", result |-> "none", ms |-> SECOND_MS * attempt]
      [] resp = "bad_body" -> [pc |-> "done", result |-> "err_decode", ms |-> 0]
      [] resp = "valid_result" -> [pc |-> "done", result |-> "ok", ms |-> 0]
      [] resp = "bad_result" -> [pc |-> "done", result |-> "err_decode", ms |-> 0]
      [] resp \in {"null_result", "rpc_error"} ->
            [pc |-> "sleep", result |-> "none", ms |-> NULL_RETRY_DELAY_MS * attempt]

\* fetch_full_transaction is called
StartFetch(signature, script) ==
    /\ rs.pc = "idle"
    /\ rs' = [rs EXCEPT !.pc = "request", !.signature = signature, !.script = script]
    /\ UNCHANGED << workerVars, px, pa, ing, bus >>

\* one request and the handling of its response
SendRequest ==
    /\ rs.pc = "request"
    /\ LET out == Attempt(rs.script[rs.calls + 1], rs.attempt)
       IN  rs' = [rs EXCEPT !.calls = @ + 1,
                            !.pc = out.pc,
                            !.result = out.result,
                            !.tx = IF out.result = "ok" THEN rs.signature ELSE "",
                            !.slept = IF out.pc = "sleep" THEN Append(@, out.ms) ELSE @]
    /\ UNCHANGED << workerVars, px, pa, ing, bus >>

\* the sleep ends: the next round of the loop, or the error after the loop
WakeUp ==
    /\ rs.pc = "sleep"
    /\ IF LoopContinues(rs.attempt + 1)
         THEN rs' = [rs EXCEPT !.pc = "request", !.attempt = @ + 1]
         ELSE rs' = [rs EXCEPT !.pc = "done", !.attempt = @ + 1, !.result = "err_not_found"]
    /\ UNCHANGED << workerVars, px, pa, ing, bus >>

NextResolver ==
    \/ \E signature \in Signatures, script \in Scripts : StartFetch(signature, script)
    \/ SendRequest
    \/ WakeUp

\* the call is a task that keeps being polled
SpecResolver == Init /\ [][NextResolver]_vars /\ WF_vars(NextResolver)

RepeatResp(resp, n) == [k \in 1..n |-> resp]

\* the answers the script gives to the first n requests
FirstAnswers(n) == SubSeq(rs.script, 1, n)

\* C11 as stated: three null results and a valid result on the 4th call give the transaction.
C11_ThreeNullsThenValid ==
    (rs.pc = "done" /\ FirstAnswers(4) = RepeatResp("null_result", 3) \o << "valid_result" >>)
        => (rs.result = "ok" /\ rs.tx = rs.signature)

\* C11 amended: two null results and a valid result on the 3rd call give the transaction of the
\* signature without error, after three requests.
C11_TwoNullsThenValid ==
    (rs.pc = "done" /\ FirstAnswers(3) = RepeatResp("null_result", 2) \o << "valid_result" >>)
        => (rs.result = "ok" /\ rs.tx = rs.signature /\ rs.calls = 3)

C11_Witness ==
    /\ rs.pc = "done"
    /\ FirstAnswers(3) = RepeatResp("null_result", 2) \o << "valid_result" >>
    /\ rs.result = "ok"
    /\ rs.slept = << NULL_RETRY_DELAY_MS, 2 * NULL_RETRY_DELAY_MS >>

\* C12: when every request up to the retry bound is answered with status 429, the call never
\* returns a transaction and ends with the error "Transaction not found after retries".
C12_RateLimitedEveryAttempt ==
    (rs.pc # "idle" /\ FirstAnswers(MAX_ATTEMPTS) = RepeatResp("http_429", MAX_ATTEMPTS))
        => /\ rs.result # "ok"
           /\ rs.tx = ""
           /\ rs.pc = "done" => rs.result = "err_not_found"

C12_Witness ==
    /\ rs.pc = "done"
    /\ FirstAnswers(MAX_ATTEMPTS) = RepeatResp("http_429", MAX_ATTEMPTS)
    /\ rs.calls = MAX_ATTEMPTS
    /\ rs.slept = << SECOND_MS, 2 * SECOND_MS, 3 * SECOND_MS >>

\* C13: a response that carries an RPC error object and no result ends the call on that attempt
\* with an RPC error: no sleep follows it and no further request is sent.
C13_RpcErrorFailsImmediately ==
    \A k \in 1..rs.calls :
        rs.script[k] = "rpc_error"
            => /\ rs.pc = "done"
               /\ rs.result = "err_rpc"
               /\ rs.calls = k
               /\ Len(rs.slept) = k - 1

\* C14: whatever the signature and the answers, the call sends at most MAX_ATTEMPTS requests,
\* and once called it ends, with a transaction or with an error.
C14_BoundedAndTerminates ==
    /\ [](rs.calls <= MAX_ATTEMPTS)
    /\ (rs.pc # "idle") ~> (rs.pc = "done" /\ rs.result # "none" /\ (rs.result = "ok" <=> rs.tx # ""))

C14_Witness ==
    /\ rs.pc = "done"
    /\ rs.calls = MAX_ATTEMPTS
    /\ rs.result = "ok"
    /\ rs.script[1] = "http_429"
    /\ rs.script[2] = "rpc_error"

\* ------------------------------------------------------------------------
\* get_sol_price and the price cache
\* ------------------------------------------------------------------------
PRICE_CACHE_TTL_SECS == 30

\* the clock counts half seconds
TICKS_PER_SEC == 2

\* the calls of get_sol_price in one behaviour
MaxCalls == 3

\* the last tick of the clock
MaxTime == 121

\* the steps of the clock, in ticks: 29.5 s, 30 s, 31 s
Advances == {59, 60, 62}

\* Duration::as_secs: whole seconds, the fraction dropped
AsSecs(ticks) == ticks \div TICKS_PER_SEC

\* a quote of exactly the time to live still counts as fresh
IsFresh_Inclusive(cache, clock) ==
    cache.some /\ AsSecs(clock - cache.updated_at) <= PRICE_CACHE_TTL_SECS

\* the test of the cached quote
IsFresh(cache, clock) ==
    cache.some /\ AsSecs(clock - cache.updated_at) < PRICE_CACHE_TTL_SECS

\* a reader is let in while the writer is at work
CanRead_DuringWrite(lock) == IsNone(lock.writer) \/ lock.readers = {}

\* RwLock::read and RwLock::write are granted
CanRead(lock) == IsNone(lock.writer)

CanWrite(lock) == IsNone(lock.writer) /\ lock.readers = {}

\* the read guard lives on to the end of the function
DropRead_Kept(lock, c) == lock

\* the read guard goes out of scope
DropRead(lock, c) == [lock EXCEPT !.readers = @ \ {c}]

\* what the price service can answer to one request
PythAnswers ==
    {[kind |-> "send_error", price |-> 0, expo |-> 0],
     [kind |-> "http_error", price |-> 0, expo |-> 0],
     [kind |-> "bad_body", price |-> 0, expo |-> 0],
     [kind |-> "no_parsed", price |-> 0, expo |-> 0],
     [kind |-> "price_not_i64", price |-> 0, expo |-> 0],
     [kind |-> "parsed", price |-> 1, expo |-> 0],
     [kind |-> "parsed", price |-> 2, expo |-> 0]}

\* 10f64.powi(exp) for the exponents of the model
Pow10(exp) == IF exp = 0 THEN 1 ELSE 10

\* the handling of the answer: the price, or none when the function returns an error
ParsePythPrice(ans) ==
    IF ans.kind = "parsed"
    THEN Some(ans.price * Pow10(ans.expo))
    ELSE None

\* the function returns: its locals are gone
Return(q, c, result) == [q EXCEPT !.cl[c] = [CallerIdle EXCEPT !.result = result]]

\* the error returns after the request: the transport error, the status that is
\* not a success, the body that does not parse; the cache is not touched
FetchFailed_ServesStale(q, c) ==
    Return(q, c, IF q.cache.some THEN Some(q.cache.price) ELSE None)
FetchFailed(q, c) == Return(q, c, None)

CallGetSolPrice(c) ==
    /\ px.cl[c].pc = "idle"
    /\ px.calls < MaxCalls
    /\ px' = [px EXCEPT !.calls = @ + 1,
                        !.cl[c] = [CallerIdle EXCEPT !.pc = "read_lock",
                                                     !.started = px.clock]]
    /\ UNCHANGED << workerVars, rs, pa, ing, bus >>

\* cache.read().await
AcquireRead(c) ==
    /\ px.cl[c].pc = "read_lock"
    /\ CanRead(px.lock)
    /\ px' = [px EXCEPT !.lock.readers = @ \cup {c}, !.cl[c].pc = "check"]
    /\ UNCHANGED << workerVars, rs, pa, ing, bus >>

\* cached.as_ref() and the age of the quote
CheckAge(c) ==
    /\ px.cl[c].pc = "check"
    /\ px' = [px EXCEPT !.cl[c].checked = Some([cache |-> px.cache, clock |-> px.clock]),
                        !.cl[c].seen_at = px.cache.updated_at,
                        !.cl[c].pc = IF IsFresh(px.cache, px.clock) THEN "read_price" ELSE "drop"]
    /\ UNCHANGED << workerVars, rs, pa, ing, bus >>

\* return Ok(price_data.price), the read guard dropped
ReadPrice(c) ==
    /\ px.cl[c].pc = "read_price"
    /\ LET q == [px EXCEPT !.lock = DropRead(px.lock, c)]
       IN  px' = Return(q, c, Some(px.cache.price))
    /\ UNCHANGED << workerVars, rs, pa, ing, bus >>

\* the end of the block of the cache check
DropMiss(c) ==
    /\ px.cl[c].pc = "drop"
    /\ px' = [px EXCEPT !.lock = DropRead(px.lock, c), !.cl[c].pc = "fetch"]
    /\ UNCHANGED << workerVars, rs, pa, ing, bus >>

\* the request to the price service and the parsing of its answer
FetchPrice(c, ans) ==
    /\ px.cl[c].pc = "fetch"
    /\ LET q == [px EXCEPT !.fetches = @ + 1, !.cl[c].nfetch = @ + 1]
           price == ParsePythPrice(ans)
       IN  px' = IF IsSome(price)
                 THEN [q EXCEPT !.cl[c].pc = "write_lock", !.cl[c].price = Unwrap(price)]
                 ELSE FetchFailed(q, c)
    /\ UNCHANGED << workerVars, rs, pa, ing, bus >>

\* cache.write().await, then Instant::now()
AcquireWrite(c) ==
    /\ px.cl[c].pc = "write_lock"
    /\ CanWrite(px.lock)
    /\ px' = [px EXCEPT !.lock.writer = Some(c),
                        !.cl[c].pc = "write",
                        !.cl[c].stamp = px.clock,
                        !.cl[c].todo = {"price", "updated_at"}]
    /\ UNCHANGED << workerVars, rs, pa, ing, bus >>

\* *cached = Some(PriceCache { .. }): the fields are stored one after the other, in any order
WriteField(c, f) ==
    /\ px.cl[c].pc = "write"
    /\ f \in px.cl[c].todo
    /\ LET l == px.cl[c]
           cache == IF f = "price"
                    THEN [px.cache EXCEPT !.some = TRUE, !.price = l.price]
                    ELSE [px.cache EXCEPT !.some = TRUE, !.updated_at = l.stamp]
           last == l.todo = {f}
       IN  px' = [px EXCEPT !.cache = cache,
                            !.cl[c].todo = @ \ {f},
                            !.cl[c].pc = IF last THEN "unlock" ELSE "write",
                            !.written = IF last THEN @ \cup {<< l.price, l.stamp >>} ELSE @]
    /\ UNCHANGED << workerVars, rs, pa, ing, bus >>

\* the write guard dropped, return Ok(actual_price)
ReleaseWrite(c) ==
    /\ px.cl[c].pc = "unlock"
    /\ LET q == [px EXCEPT !.lock.writer = None]
       IN  px' = Return(q, c, Some(px.cl[c].price))
    /\ UNCHANGED << workerVars, rs, pa, ing, bus >>

\* time passes
Advance(d) ==
    /\ px.clock + d <= MaxTime
    /\ px' = [px EXCEPT !.clock = @ + d]
    /\ UNCHANGED << workerVars, rs, pa, ing, bus >>

PriceStep(c) ==
    \/ CallGetSolPrice(c)
    \/ AcquireRead(c)
    \/ CheckAge(c)
    \/ ReadPrice(c)
    \/ DropMiss(c)
    \/ \E ans \in PythAnswers : FetchPrice(c, ans)
    \/ AcquireWrite(c)
    \/ \E f \in {"price", "updated_at"} : WriteField(c, f)
    \/ ReleaseWrite(c)

NextPrice ==
    \/ \E c \in PriceCallers : PriceStep(c)
    \/ \E d \in Advances : Advance(d)

SpecPrice == Init /\ [][NextPrice]_vars

\* the quote a caller found at its check is younger than the time to live, in clock ticks
Young(checked) ==
    /\ checked.cache.some
    /\ checked.clock - checked.cache.updated_at < PRICE_CACHE_TTL_SECS * TICKS_PER_SEC

ReturnsFromGetSolPrice(c) == px.cl[c].pc # "idle" /\ px'.cl[c].pc = "idle"

\* the requests a returning call has sent to the price service
Issued(c) == px.cl[c].nfetch + (px'.fetches - px.fetches)

\* C15: a call that finds a cached quote younger than 30 seconds returns the cached price and
\* sends no request to the price service; a call that finds no quote, or a quote of 30 seconds
\* or more, sends exactly one.
C15_CacheTimeToLive ==
    [][\A c \in PriceCallers :
          ReturnsFromGetSolPrice(c) =>
             LET checked == Unwrap(px.cl[c].checked)
             IN  IF Young(checked)
                 THEN Issued(c) = 0 /\ px'.cl[c].result = Some(checked.cache.price)
                 ELSE Issued(c) = 1]_vars

\* two calls within 30 seconds (the second one found the quote of tick 0 fresh) have sent one
\* request, and the third call, begun 31 seconds after them, has sent the second request
C15_Witness ==
    \E c \in PriceCallers :
        /\ px.cl[c].pc = "unlock"
        /\ px.cl[c].started = 121
        /\ px.cl[c].nfetch = 1
        /\ px.cl[c].stamp = 121
        /\ px.calls = 3
        /\ px.fetches = 2
        /\ \E p \in Prices : px.written = {<< p, 0 >>, << px.cl[c].price, 121 >>}
        /\ \A d \in PriceCallers \ {c} : px.cl[d].pc = "idle" /\ IsSome(px.cl[d].result)

\* C16: whatever the interleaving of the callers, the quote a reader looks at under the read
\* lock is whole: the price and the time it reads were stored together by one refresh.
C16_NoPartialQuote ==
    \A c \in PriceCallers :
        /\ px.cl[c].pc = "check"
              => (px.cache = EmptyCache \/ << px.cache.price, px.cache.updated_at >> \in px.written)
        /\ px.cl[c].pc = "read_price"
              => << px.cache.price, px.cl[c].seen_at >> \in px.written

C16_Witness ==
    \E c, d \in PriceCallers :
        /\ px.cl[c].pc = "read_price"
        /\ px.cl[d].pc = "write_lock"
        /\ px.cl[d].price # px.cache.price
        /\ << px.cache.price, px.cl[c].seen_at >> \in px.written

\* C17: a caller that is fetching holds neither lock, the write lock is held only while the
\* quote is replaced, and a caller that asks for the read lock while another one is fetching
\* and no replacement is going on gets it.
C17_NoLockAcrossFetch ==
    /\ \A c \in PriceCallers :
          px.cl[c].pc \in {"fetch", "write_lock"}
              => (c \notin px.lock.readers /\ px.lock.writer # Some(c))
    /\ \A c \in PriceCallers :
          px.lock.writer = Some(c) => px.cl[c].pc \in {"write", "unlock"}
    /\ \A c, d \in PriceCallers :
          (px.cl[d].pc = "fetch" /\ px.cl[c].pc = "read_lock"
             /\ \A e \in PriceCallers : px.cl[e].pc \notin {"write", "unlock"})
              => CanRead(px.lock)

C17_Witness ==
    \E c, d \in PriceCallers :
        /\ px.cl[d].pc = "fetch"
        /\ px.cl[c].pc = "read_price"
        /\ c \in px.lock.readers
        /\ IsFresh(px.cache, px.clock)

\* a call returns from its request without a price
RefreshFails(c) == px.cl[c].pc = "fetch" /\ px'.cl[c].pc = "idle"

\* a call returns after it has replaced the quote
RefreshSucceeds(c) == px.cl[c].pc = "unlock" /\ px'.cl[c].pc = "idle"

\* C39: a refresh that fails leaves the cached quote as it was and returns an
\* error, also when a quote that is too old is cached; a cache that holds a
\* quote never becomes empty again; a refresh that succeeds has replaced the
\* price and the time of capture by its own pair when it lets go of the lock.
C39_FailedRefreshKeepsQuote ==
    [][/\ px.cache.some => px'.cache.some
       /\ \A c \in PriceCallers :
             /\ RefreshFails(c) =>
                   /\ px'.cache = px.cache
                   /\ IsNone(px'.cl[c].result)
             /\ RefreshSucceeds(c) =>
                   /\ px'.cache = [some |-> TRUE, price |-> px.cl[c].price,
                                                  updated_at |-> px.cl[c].stamp]
                   /\ px'.cl[c].result = Some(px.cl[c].price)]_vars

\* one caller made two calls: the first stored a quote at tick 0, the second
\* found it too old, sent its request and came back with the error; the quote
\* of tick 0 is still cached
C39_Witness ==
    /\ px.calls = 2
    /\ px.fetches = 2
    /\ \A c \in PriceCallers : px.cl[c].pc = "idle" /\ IsNone(px.cl[c].result)
    /\ \E p \in Prices : /\ px.written = {<< p, 0 >>}
                          /\ px.cache = [some |-> TRUE, price |-> p, updated_at |-> 0]
    /\ ~IsFresh(px.cache, px.clock)

\* ------------------------------------------------------------------------
\* The parser applied to transactions of every shape
\* ------------------------------------------------------------------------
MINT_B == "MintB111111111111111111111111111111111111111"

\* the longest list of post token balances
MaxEntries == 2

\* raw token amounts
ParserAmounts == {1000, 1500}

\* token balance entries: the token account of the wallet (index 2) or of the curve (index 4),
\* of one of two tokens or of wrapped SOL, and an entry without owner
ParserEntries ==
    {Tok(i, m, a, IF i = 2 THEN WALLET_A ELSE CURVE_A) :
        i \in {2, 4}, m \in {MINT_A, MINT_B, SOL_MINT}, a \in ParserAmounts}
    \cup {[account_index |-> 2, mint |-> MINT_B, amount |-> 1500, owner |-> None]}

PostLists == UNION {[1..n -> ParserEntries] : n \in 0..MaxEntries}

PreLists == UNION {[1..n -> ParserEntries] : n \in 0..1}

\* the programs of the instructions of a transaction
ParserPrograms ==
    {<< >>, << SYSTEM_PROGRAM, TOKEN_PROGRAM >>, << PUMP_FUN_PROGRAM_ID >>,
     << SYSTEM_PROGRAM, PUMP_FUN_PROGRAM_ID >>}

ParserMetas ==
    {None} \cup
    {Meta(<< 82, 0, 0, 20, 0, 0, 0 >>, << 80, 0, 0, 22, 0, 0, 0 >>, pre, post, None) :
        pre \in PreLists, post \in PostLists}

\* the transactions handed to the parser; every one carries its signature and mentions the
\* program of interest among its accounts
ParserInputs ==
    {MkTx("sigBuy", 2, Some(2), programs, meta) :
        programs \in ParserPrograms, meta \in ParserMetas}

InitParser ==
    /\ rs = ResolverIdle
    /\ px = PriceIdle
    /\ ing = IngesterIdle
    /\ bus = BusIdle
    /\ InitWorker
    /\ pa \in {[ParserIdle EXCEPT !.pc = "input", !.tx = tx, !.current_sol_price = p] :
                  tx \in ParserInputs, p \in Prices}

\* parse_token_creation(&tx)
ApplyParseTokenCreation ==
    /\ pa.pc = "input"
    /\ pa' = [pa EXCEPT !.pc = "creation_parsed", !.creation = ParseTokenCreation(pa.tx)]
    /\ UNCHANGED << workerVars, rs, px, ing, bus >>

\* parse_pump_fun_transaction(&tx, current_sol_price)
ApplyParsePumpFunTransaction ==
    /\ pa.pc = "creation_parsed"
    /\ pa' = [pa EXCEPT !.pc = "done",
                        !.trade = ParsePumpFunTransaction(pa.tx, pa.current_sol_price, now)]
    /\ UNCHANGED << workerVars, rs, px, ing, bus >>

NextParser ==
    \/ ApplyParseTokenCreation
    \/ ApplyParsePumpFunTransaction

SpecParser == InitParser /\ [][NextParser]_vars

\* the token balances of the transaction at the parser
PostEntries ==
    IF IsSome(pa.tx.meta) THEN TokenBalances(Unwrap(pa.tx.meta).post_token_balances) ELSE << >>

PreEntries ==
    IF IsSome(pa.tx.meta) THEN TokenBalances(Unwrap(pa.tx.meta).pre_token_balances) ELSE << >>

Least(S) == CHOOSE x \in S : \A y \in S : x <= y

\* the pre amount of a post entry: that of the first pre entry of the same account index and
\* mint, 0 when there is none
PreAmount(e) ==
    LET S == {j \in DOMAIN PreEntries :
                 PreEntries[j].account_index = e.account_index /\ PreEntries[j].mint = e.mint}
    IN  IF S = {} THEN 0 ELSE PreEntries[Least(S)].amount

Delta(e) == e.amount - PreAmount(e)

\* the positions of the post entries that are not wrapped SOL and whose amount changed
Qualifying == {i \in DOMAIN PostEntries :
                  PostEntries[i].mint # SOL_MINT /\ Delta(PostEntries[i]) # 0}

TargetsProgram ==
    \E i \in DOMAIN pa.tx.instructions : pa.tx.instructions[i].program_id = PUMP_FUN_PROGRAM_ID

\* C18: when no instruction of the transaction targets the program of interest,
\* parse_token_creation and parse_pump_fun_transaction both return none, whatever the token
\* balances.
C18_NoProgramNoEvent ==
    (pa.pc # "idle" /\ ~TargetsProgram)
        => /\ pa.pc \in {"creation_parsed", "done"} => IsNone(pa.creation)
           /\ pa.pc = "done" => pa.trade.tag = "None"

\* no instruction targets the program, which is mentioned among the accounts, and the balances
\* show a token that is new and an amount that changed
C18_Witness ==
    /\ pa.pc = "done"
    /\ ~TargetsProgram
    /\ Len(pa.tx.instructions) = 2
    /\ Qualifying # {}
    /\ PreEntries = << >>
    /\ pa.trade.tag = "None"
    /\ IsNone(pa.creation)

\* C19: for every trade the parser produces, is_buy is true exactly when post minus pre of the
\* matched entry is positive, token_amount is the absolute value of that difference, and the
\* instruction label is "buy" exactly when is_buy.
C19_DirectionAndAmount ==
    (pa.pc = "done" /\ pa.trade.tag = "Some")
        => LET t == pa.trade.trade
               delta == Delta(PostEntries[TradeEntry(PreEntries, PostEntries)])
           IN  /\ t.is_buy <=> delta > 0
               /\ t.token_amount = Dec(Abs(delta))
               /\ t.ix_name \in {"buy", "sell"}
               /\ t.ix_name = "buy" <=> t.is_buy

\* pre 1000, post 1500: a buy of 500
C19_Witness ==
    /\ pa.pc = "done"
    /\ pa.trade.tag = "Some"
    /\ PreEntries = << Tok(2, MINT_A, 1000, WALLET_A) >>
    /\ PostEntries = << Tok(2, MINT_A, 1500, WALLET_A) >>
    /\ pa.trade.trade.is_buy
    /\ pa.trade.trade.token_amount = Dec(500)
    /\ pa.trade.trade.ix_name = "buy"

Processing(w) == wk[w].pc \notin {"idle", "stopped"}

\* C24: a failure confined to one envelope never ends the consumer loop: the
\* step on which a call fails does not leave the loop, and when it ends the
\* envelope the worker is back at stream.next(), ready for the next one.
C24_FailureKeepsLoop ==
    [][\A w \in SingleWorker :
         faults' > faults =>
            /\ wk'[w].pc # "stopped"
            /\ wk'[w].result \in {"err", "skipped"} => wk'[w].pc = "idle"]_vars

\* an envelope was processed to the end after an earlier envelope had failed
C24_Witness ==
    \E w \in SingleWorker :
        /\ faults = 1
        /\ wk[w].pc = "idle" /\ wk[w].result = "ok" /\ ~wk[w].faulted
        /\ IsSome(wk[w].trade)
        /\ \E t \in trades : t.signature = wk[w].tx

\* C25: while the processing of one signature is in progress, the worker can
\* already receive the next envelope the bus holds.
C25_ReceivesWhileProcessing ==
    \A w \in SingleWorker :
        (Processing(w) /\ TotalDelivered < MaxDeliveries)
            => ENABLED (\E id \in TxIds : Receive(w, id))

\* C26: once a persistence operation of a processing has failed, the
\* processing writes nothing more and does not end with success.
C26_FailureStopsWrites ==
    [][\A w \in SingleWorker :
         (Processing(w) /\ wk[w].faulted) =>
            (Store' = Store /\ wk'[w].result # "ok")]_vars

\* C27: when get_sol_price fails, the step leaves the store as it was when the
\* envelope was received and process_and_save returns the error.
C27_NoPriceNoWrite ==
    [][\A w \in SingleWorker :
         (wk[w].pc = "price" /\ faults' > faults) =>
            /\ Store' = Store
            /\ wk'[w].pc = "idle" /\ wk'[w].result = "err"]_vars

\* the quote was unavailable for a transaction that holds a trade, after the
\* store had already been filled by an earlier envelope
C27_Witness ==
    \E w \in SingleWorker :
        /\ wk[w].pc = "idle" /\ wk[w].result = "err" /\ wk[w].faulted
        /\ wk[w].tx = "sigSell" /\ hist.tx = "sigSell" /\ hist.runs = 1
        /\ Store = hist.base
        /\ trades # {}

\* C28: after a trade is applied to a mint whose token row has no
\* bonding-curve address, by a transaction in which the heuristic finds an
\* account, the stored row carries that account as bonding_curve_address.
C28_CurveAddressBackfilled ==
    [][\A w \in SingleWorker :
         (wk[w].pc = "upsert_token" /\ wk'[w].pc = "get_holder") =>
            LET mint == Unwrap(wk[w].trade).token_mint
                old == GetToken(tokens, mint)
                found == FindBondingCurveFromTx(Tx(wk[w].tx), mint)
            IN  (IsSome(old) /\ IsNone(Unwrap(old).bonding_curve_address) /\ IsSome(found))
                    => Unwrap(GetToken(tokens', mint)).bonding_curve_address = found]_vars

\* ------------------------------------------------------------------------
\* Token creation
\* ------------------------------------------------------------------------
\* the positions of the post entries whose mint is not wrapped SOL and is the
\* mint of no pre entry
NewMints ==
    {i \in DOMAIN PostEntries :
        /\ PostEntries[i].mint # SOL_MINT
        /\ \A j \in DOMAIN PreEntries : PreEntries[j].mint # PostEntries[i].mint}

\* the first signer among the accounts of the transaction at the parser
FirstSigner ==
    pa.tx.account_keys[Least({k \in DOMAIN pa.tx.account_keys : pa.tx.account_keys[k].signer})]

\* C29: parse_token_creation returns a token iff the transaction targets the
\* program of interest and some post entry has a mint, other than wrapped SOL,
\* that no pre entry carries; the token is that of the first such entry, its
\* creator the first signer, its supply the constant, its market cap and
\* progress 0 and complete false.
C29_CreationFromNewMint ==
    pa.pc \in {"creation_parsed", "done"} =>
        /\ IsSome(pa.creation) <=> (TargetsProgram /\ NewMints # {})
        /\ IsSome(pa.creation) =>
             LET token == Unwrap(pa.creation)
             IN  /\ token.mint_address = PostEntries[Least(NewMints)].mint
                 /\ token.creator_wallet = Some(FirstSigner.pubkey)
                 /\ token.token_total_supply = Dec(TOKEN_TOTAL_SUPPLY)
                 /\ token.market_cap_usd = 0
                 /\ token.bonding_curve_progress = 0
                 /\ token.complete = FALSE

\* a token was created from the second post entry: the mint of the first one is
\* carried by a pre entry of another account
C29_Witness ==
    /\ pa.pc = "creation_parsed"
    /\ IsSome(pa.creation)
    /\ Len(PostEntries) = 2 /\ Len(PreEntries) = 1
    /\ PostEntries[1].mint = PreEntries[1].mint
    /\ PostEntries[1].account_index # PreEntries[1].account_index
    /\ Unwrap(pa.creation).mint_address = PostEntries[2].mint

\* ------------------------------------------------------------------------
\* The bonding-curve address heuristic on lists of account keys
\* (find_bonding_curve_address and find_bonding_curve_from_tx)
\* ------------------------------------------------------------------------
\* an address of 43 characters that is none of the known addresses
CURVE_SHORT == "CurveShort111111111111111111111111111111111"

\* the length of the lists of account keys
MaxKeys == 9

\* 1-based positions of the lists: 0..8 in the code's numbering
KeyPositions == 1..MaxKeys

\* an account that never qualifies: read-only
FillerKey == Key(USER_ATA, FALSE, FALSE)

\* writable non-signer accounts of every address the heuristic distinguishes,
\* and the curve as a signer and as a read-only account
CurveKinds ==
    {Key(a, FALSE, TRUE) :
        a \in {CURVE_A, CURVE_ATA, CURVE_SHORT, MINT_A, SYSTEM_PROGRAM, TOKEN_PROGRAM,
               ASSOCIATED_TOKEN_PROGRAM, RENT_PROGRAM, EVENT_AUTHORITY, SOL_MINT,
               PUMP_FUN_PROGRAM_ID}}
    \cup {Key(CURVE_A, TRUE, TRUE), Key(CURVE_A, FALSE, FALSE)}

\* lists in which at most two accounts are not the filler account
CurveKeyLists ==
    UNION {{[i \in KeyPositions |-> IF i \in S THEN f[i] ELSE FillerKey] : f \in [S -> CurveKinds]} :
              S \in {T \in SUBSET KeyPositions : Cardinality(T) <= 2}}

\* transactions of the mint MINT_A over these lists
CurveInputs == {[TxBuy EXCEPT !.account_keys = keys] : keys \in CurveKeyLists}

InitCurve ==
    /\ rs = ResolverIdle
    /\ px = PriceIdle
    /\ ing = IngesterIdle
    /\ bus = BusIdle
    /\ InitWorker
    /\ pa \in {[ParserIdle EXCEPT !.pc = "keys", !.tx = tx] : tx \in CurveInputs}

\* find_bonding_curve_address(&tx.transaction.message.account_keys, &mint_address)
ApplyFindBondingCurveAddress ==
    /\ pa.pc = "keys"
    /\ pa' = [pa EXCEPT !.pc = "curve_found",
                        !.curve = FindBondingCurveAddress(pa.tx.account_keys, MINT_A)]
    /\ UNCHANGED << workerVars, rs, px, ing, bus >>

\* find_bonding_curve_from_tx(&tx, &trade.token_mint)
ApplyFindBondingCurveFromTx ==
    /\ pa.pc = "curve_found"
    /\ pa' = [pa EXCEPT !.pc = "curve_done",
                        !.curve_from_tx = FindBondingCurveFromTx(pa.tx, MINT_A)]
    /\ UNCHANGED << workerVars, rs, px, ing, bus >>

NextCurve ==
    \/ ApplyFindBondingCurveAddress
    \/ ApplyFindBondingCurveFromTx

SpecCurve == InitCurve /\ [][NextCurve]_vars

\* the system, token, associated-token, rent and event-authority addresses
WellKnown ==
    {SYSTEM_PROGRAM, TOKEN_PROGRAM, ASSOCIATED_TOKEN_PROGRAM, RENT_PROGRAM, EVENT_AUTHORITY}

\* the 0-indexed positions of the accounts that satisfy every condition
QualifyingPositions ==
    {n \in 3..7 :
        /\ n + 1 \in DOMAIN pa.tx.account_keys
        /\ LET a == pa.tx.account_keys[n + 1]
           IN  /\ a.writable
               /\ ~a.signer
               /\ a.pubkey # MINT_A
               /\ a.pubkey # SOL_MINT
               /\ a.pubkey # PUMP_FUN_PROGRAM_ID
               /\ a.pubkey \notin WellKnown
               /\ Len(a.pubkey) = 44}

ExpectedCurve ==
    IF QualifyingPositions = {} THEN None
    ELSE Some(pa.tx.account_keys[Least(QualifyingPositions) + 1].pubkey)

\* C30: both heuristics return the first account, in list order, that is
\* writable, not a signer, not the mint, wrapped SOL, the program or a
\* well-known address, at position 3..7 and 44 characters long; they return
\* none iff no account satisfies all of these.
C30_FirstQualifyingAccount ==
    /\ pa.pc \in {"curve_found", "curve_done"} =>
          /\ pa.curve = ExpectedCurve
          /\ IsNone(pa.curve) <=> QualifyingPositions = {}
    /\ pa.pc = "curve_done" => pa.curve_from_tx = ExpectedCurve

\* two accounts qualify and the earlier one in list order is returned
C30_Witness ==
    /\ pa.pc = "curve_done"
    /\ Cardinality(QualifyingPositions) = 2
    /\ pa.curve = Some(CURVE_ATA)
    /\ pa.curve_from_tx = Some(CURVE_ATA)
    /\ pa.tx.account_keys[Least(QualifyingPositions) + 1].pubkey = CURVE_ATA

\* ------------------------------------------------------------------------
\* The log stream ingester (helius/ingester.rs)
\* ------------------------------------------------------------------------
MAX_RETRIES == 5
INITIAL_RETRY_DELAY == 1000

\* the number of frames the stream delivers, and of keepalive probes sent
MaxMessages == 2
MaxPings == 2

LogSignatures == {"sigBuy", "sigSell"}

Frame(kind, id, signature, err) ==
    [kind |-> kind, id |-> id, signature |-> signature, err |-> err]

\* what read.next() yields without ending the loop: text that is not JSON, the
\* subscription confirmation, log notifications with err null or set, a
\* notification whose result does not decode, other JSON, and non-text frames
InboundFrames ==
    {Frame(k, 0, "", None) : k \in {"not_json", "bad_notification", "other_json", "not_text"}}
    \cup {Frame("confirmation", 7, "", None)}
    \cup {Frame("notification", 0, sig, e) :
             sig \in LogSignatures, e \in {None, Some("InstructionError")}}

\* how the read loop ends: a close frame, a read error, or the end of the stream
ReadEndings == {"close", "error", "eof"}

RECURSIVE Pow2(_)
Pow2(n) == IF n = 0 THEN 1 ELSE 2 * Pow2(n - 1)

\* the delay before the next attempt, in milliseconds
RetryDelay_Linear(retry_count) == INITIAL_RETRY_DELAY * retry_count
RetryDelay(retry_count) == INITIAL_RETRY_DELAY * Pow2(retry_count - 1)

\* the Err arm of run_websocket_test: connect has returned an error
ConnectionLost(i) ==
    LET retry_count == i.retry_count + 1
    IN  IF retry_count >= MAX_RETRIES
        THEN [i EXCEPT !.pc = "fatal", !.retry_count = retry_count, !.ping = "none"]
        ELSE [i EXCEPT !.pc = "sleeping", !.retry_count = retry_count, !.ping = "none",
                       !.slept = Append(@, RetryDelay(retry_count))]

\* tokio::spawn of the keepalive task: one more task is alive
SpawnPing(i) == [i EXCEPT !.ping = "running", !.alive = @ + 1]

\* the keepalive task leaves its loop after a failed send and is over
PingEnds(i) == [i EXCEPT !.ping = "ended", !.alive = @ - 1]

\* ping_task.abort() after the read loop: the task of this connection is
\* cancelled; aborting a task that is already over changes nothing
AbortPing_Omitted(i) == i
AbortPing(i) ==
    IF i.ping = "running" THEN [i EXCEPT !.ping = "aborted", !.alive = @ - 1] ELSE i

\* what connect returns: an error from connect_async or from sending the
\* subscription (the ? operators), or the error built after the read loop; no
\* path of connect returns Ok
ConnectResult_OkAfterStream(i) == IF i.pc = "streaming" THEN "Ok" ELSE "Err"
ConnectResult(i) == "Err"

\* the match on connect's result in run_websocket_test; when connect returns the
\* keepalive task, if it was spawned, has been aborted
ConnectReturned(i) ==
    IF ConnectResult(i) = "Ok"
    THEN [i EXCEPT !.pc = "start", !.retry_count = 0, !.ping = "none"]
    ELSE ConnectionLost(i)

\* the filter on failed transactions
SkipsFailed_Never(value) == FALSE
SkipsFailed(value) == IsSome(value.err)

\* handle_message: the state of the client and the tasks spawned so far
HandleMessage(i, m) ==
    CASE m.kind = "confirmation" -> [i EXCEPT !.subscription_id = Some(m.id)]
      [] m.kind = "notification" ->
            IF SkipsFailed(m) THEN i
            ELSE [i EXCEPT !.tasks = Append(@, m.signature)]
      [] OTHER -> i

\* connect_async
ConnectAsync(ok) ==
    /\ ing.pc = "start"
    /\ ing' = IF ok THEN [ing EXCEPT !.pc = "subscribe"] ELSE ConnectReturned(ing)
    /\ UNCHANGED << workerVars, rs, px, pa, bus >>

\* the logsSubscribe request is sent, the keepalive task is spawned
Subscribe(ok) ==
    /\ ing.pc = "subscribe"
    /\ ing' = IF ok THEN [SpawnPing(ing) EXCEPT !.pc = "streaming"]
              ELSE ConnectReturned(ing)
    /\ UNCHANGED << workerVars, rs, px, pa, bus >>

\* the keepalive task: a tick of its interval, then the probe is sent; when the
\* send fails the task leaves its loop and ends
PingTick(ok) ==
    /\ ing.pc = "streaming"
    /\ ing.ping = "running"
    /\ ing.pings < MaxPings
    /\ ing' = [(IF ok THEN ing ELSE PingEnds(ing)) EXCEPT !.pings = @ + 1]
    /\ UNCHANGED << workerVars, rs, px, pa, bus >>

\* read.next() yields a frame that does not end the loop
ReadFrame(m) ==
    /\ ing.pc = "streaming"
    /\ ing.handled < MaxMessages
    /\ ing' = [(IF m.kind = "not_text" THEN ing ELSE HandleMessage(ing, m))
                  EXCEPT !.handled = @ + 1, !.last = m]
    /\ UNCHANGED << workerVars, rs, px, pa, bus >>

\* the read loop ends; the keepalive task is aborted and connect returns Err
ReadEnds(how) ==
    /\ ing.pc = "streaming"
    /\ ing' = ConnectReturned(AbortPing(ing))
    /\ UNCHANGED << workerVars, rs, px, pa, bus >>

\* the sleep of the backoff is over
Reconnect ==
    /\ ing.pc = "sleeping"
    /\ ing' = [ing EXCEPT !.pc = "start"]
    /\ UNCHANGED << workerVars, rs, px, pa, bus >>

\* the steps the ingester takes by itself
IngesterRuns ==
    \/ \E ok \in BOOLEAN : ConnectAsync(ok)
    \/ \E ok \in BOOLEAN : Subscribe(ok)
    \/ \E ok \in BOOLEAN : PingTick(ok)
    \/ Reconnect

NextIngester ==
    \/ IngesterRuns
    \/ \E m \in InboundFrames : ReadFrame(m)
    \/ \E how \in ReadEndings : ReadEnds(how)

SpecIngester == Init /\ [][NextIngester]_vars /\ WF_vars(IngesterRuns)

\* C21: a log notification whose error field is set starts no task; any other
\* log notification starts exactly one task, for its signature.
C21_OneTaskPerSuccessfulLog ==
    [][(ing'.handled = ing.handled + 1 /\ ing'.last.kind = "notification") =>
          IF IsSome(ing'.last.err)
          THEN ing'.tasks = ing.tasks
          ELSE ing'.tasks = Append(ing.tasks, ing'.last.signature)]_vars

\* a failed and a successful notification were handled: one task
C21_Witness ==
    /\ ing.handled = 2
    /\ ing.last = Frame("notification", 0, "sigSell", Some("InstructionError"))
    /\ ing.tasks = << "sigBuy" >>

\* the delays of the backoff: 1000 ms, doubled after each failure
ExpectedDelays == << 1000, 2000, 4000, 8000 >>

\* C22: the reconnect loop retries a bounded number of times, sleeping
\* 1000 ms doubled after each failure; at the fifth failure it returns the
\* fatal error; a loop whose connections never reach the stream terminates.
C22_BoundedBackoff ==
    /\ [](/\ ing.retry_count <= MAX_RETRIES
          /\ ing.slept = SubSeq(ExpectedDelays, 1, Len(ing.slept))
          /\ Len(ing.slept) = IF ing.pc = "fatal" THEN MAX_RETRIES - 1 ELSE ing.retry_count
          /\ ing.pc = "fatal" <=> ing.retry_count = MAX_RETRIES)
    /\ <>(ing.pc \in {"fatal", "streaming"})

\* every attempt failed before the stream was reached, and the loop returned the
\* fatal error
C22_Witness ==
    /\ ing.pc = "fatal"
    /\ ing.slept = ExpectedDelays
    /\ ing.handled = 0 /\ ing.pings = 0 /\ IsNone(ing.subscription_id)

\* C23: when sending a keepalive probe fails, the ingester leaves the streaming
\* state, even when the read side delivers no error.
C23_PingFailureEndsStream ==
    (ing.pc = "streaming" /\ ing.ping = "ended") ~> (ing.pc # "streaming")

\* a step in which connect returns to run_websocket_test
ConnectReturns ==
    /\ ing.pc \in {"start", "subscribe", "streaming"}
    /\ ing'.pc \in {"start", "sleeping", "fatal"}
    /\ ing' # ing

C40_OnePingTask ==
    /\ [](/\ ing.alive \in {0, 1}
          /\ ing.pc # "streaming" => ing.alive = 0)
    /\ [][/\ ing'.alive > ing.alive => ing.pc = "subscribe" /\ ing'.pc = "streaming"
          /\ (ing.pc = "subscribe" /\ ing'.pc = "streaming") =>
                ing'.alive = ing.alive + 1]_vars

\* a later connection is streaming with its own keepalive task, the only one
\* alive, after an earlier connection had sent probes and was lost
C40_Witness ==
    /\ ing.pc = "streaming"
    /\ ing.retry_count > 0
    /\ ing.pings > 0
    /\ ing.ping = "running"
    /\ ing.alive = 1

\* ------------------------------------------------------------------------
\* The bus (redis/redis_cleint.rs) and the subscription of run_worker
\* ------------------------------------------------------------------------
\* the number of envelopes published
MaxPublished == 6

\* publish: PUBLISH on the channel; the message goes to the subscriptions that
\* exist at that moment.  Envelopes are numbered in the order of publication.
Publish ==
    /\ bus.published < MaxPublished
    /\ bus' = [bus EXCEPT !.published = @ + 1,
                          !.stream = IF bus.subscribed THEN Append(@, bus.published + 1)
                                     ELSE @]
    /\ UNCHANGED << workerVars, rs, px, pa, ing >>

\* run_worker: redis.subscribe(REDIS_CHANNEL)
SubscribeChannel ==
    /\ ~bus.subscribed
    /\ bus' = [bus EXCEPT !.subscribed = TRUE]
    /\ UNCHANGED << workerVars, rs, px, pa, ing >>

\* run_worker: stream.next() yields the oldest message of the subscription and
\* the worker starts processing it
StreamNext ==
    /\ bus.subscribed /\ ~bus.busy
    /\ bus.stream # << >>
    /\ bus' = [bus EXCEPT !.stream = Tail(@), !.received = Append(@, Head(bus.stream)),
                          !.busy = TRUE]
    /\ UNCHANGED << workerVars, rs, px, pa, ing >>

\* run_worker: the body of the loop is done
EnvelopeDone ==
    /\ bus.busy
    /\ bus' = [bus EXCEPT !.busy = FALSE]
    /\ UNCHANGED << workerVars, rs, px, pa, ing >>

WorkerRuns ==
    \/ SubscribeChannel
    \/ StreamNext
    \/ EnvelopeDone

NextBus ==
    \/ Publish
    \/ WorkerRuns

SpecBus == Init /\ [][NextBus]_vars /\ WF_vars(WorkerRuns)

\* the number of times the envelope e occurs in the sequence q
Occurrences(q, e) == Cardinality({i \in DOMAIN q : q[i] = e})

\* C31: every envelope published on the channel is delivered to the single
\* worker exactly once: at any moment it is pending in the worker's
\* subscription or has been received, once, also when it was published before
\* the worker subscribed or while the worker was busy.
C31_PublishedIsDelivered ==
    \A e \in 1..bus.published :
        Occurrences(bus.stream, e) + Occurrences(bus.received, e) = 1

\* ------------------------------------------------------------------------
\* Metadata extraction on log texts
\* (extract_metadata_from_logs and extract_token_metadata_from_tx)
\* ------------------------------------------------------------------------
\* a text of n characters without separators
Filler(n) == [i \in 1..n |-> "a"]

\* the keys in three casings
NameKeys == {NAME_LOWER, NAME_CAPITAL, << "N", "A", "M", "E", ":" >>}
SymbolKeys == {SYMBOL_LOWER, SYMBOL_CAPITAL, << "S", "Y", "M", "B", "O", "L", ":" >>}
UriKeys == {URI_LOWER, URI_CAPITAL, << "U", "R", "I", ":" >>, METADATA_LOWER, << "M", "e", "t", "a", "d", "a", "t", "a", ":" >>}

FOO_COIN == << "F", "o", "o", "C", "o", "i", "n" >>
FOO == << "F", "O", "O" >>
URI_HTTPS == << "h", "t", "t", "p", "s", ":", "/", "/", "x", "/", "y", ".", "j", "s", "o", "n" >>

NameValues == {FOO_COIN, Filler(99), Filler(100)}
SymbolValues == {FOO, Filler(19), Filler(20)}
UriValues == {URI_HTTPS, << "i", "p", "f", "s", ":", "/", "/", "Q", "m" >>, << "a", "r", ":", "/", "/", "x" >>, << "f", "t", "p", ":", "/", "/", "x" >>}

\* what follows the value: nothing, or a comma, quote, brace or space and more text
Afters == {<< >>} \cup {<< c, "z" >> : c \in {",", "\"", "}", " "}}

Recipe(field, key, value, after) ==
    [field |-> field, key |-> key, value |-> value, after |-> after]

LogRecipes ==
    {Recipe("name", k, v, a) : k \in NameKeys, v \in NameValues, a \in Afters}
    \cup {Recipe("symbol", k, v, a) : k \in SymbolKeys, v \in SymbolValues, a \in Afters}
    \cup {Recipe("uri", k, v, a) : k \in UriKeys, v \in UriValues, a \in Afters}
    \cup {Recipe("example", << >>, << >>, << >>)}

\* the log line of a recipe: "Program log: <key> <value><after>"
LogLine(r) ==
    IF r.field = "example" THEN EXAMPLE_LOG
    ELSE << "P", "r", "o", "g", "r", "a", "m", " ", "l", "o", "g", ":", " " >> \o r.key \o << " " >> \o r.value \o r.after

TxWithLog(line) ==
    [TxBuy EXCEPT !.meta = Some([Unwrap(TxBuy.meta) EXCEPT !.log_messages = Some(<< line >>)])]

InitLogs ==
    /\ rs = ResolverIdle
    /\ px = PriceIdle
    /\ ing = IngesterIdle
    /\ bus = BusIdle
    /\ InitWorker
    /\ pa \in {[ParserIdle EXCEPT !.pc = "line", !.recipe = r, !.tx = TxWithLog(LogLine(r))] :
                  r \in LogRecipes}

\* extract_metadata_from_logs(meta)
ApplyExtractMetadataFromLogs ==
    /\ pa.pc = "line"
    /\ pa' = [pa EXCEPT !.pc = "logs_scanned",
                        !.md_logs = ExtractMetadataFromLogs(Unwrap(pa.tx.meta))]
    /\ UNCHANGED << workerVars, rs, px, ing, bus >>

\* extract_token_metadata_from_tx(&tx)
ApplyExtractTokenMetadataFromTx ==
    /\ pa.pc = "logs_scanned"
    /\ pa' = [pa EXCEPT !.pc = "tx_scanned", !.md_tx = ExtractTokenMetadataFromTx(pa.tx)]
    /\ UNCHANGED << workerVars, rs, px, ing, bus >>

NextLogs ==
    \/ ApplyExtractMetadataFromLogs
    \/ ApplyExtractTokenMetadataFromTx

SpecLogs == InitLogs /\ [][NextLogs]_vars

\* what the recipe's line must yield: <<name, symbol, uri>>
ExpectedMetadata(r) ==
    CASE r.field = "example" -> << Some(FOO_COIN), Some(FOO), Some(URI_HTTPS) >>
      [] r.field = "name" ->
            << IF Len(r.value) < 100 THEN Some(r.value) ELSE None, None, None >>
      [] r.field = "symbol" ->
            << None, IF Len(r.value) < 20 THEN Some(r.value) ELSE None, None >>
      [] r.field = "uri" ->
            << None, None,
               IF \/ StartsWith(r.value, PREFIX_HTTP)
                  \/ StartsWith(r.value, PREFIX_IPFS)
                  \/ StartsWith(r.value, PREFIX_AR)
               THEN Some(r.value) ELSE None >>

\* C32: both extractions find the keys name:, symbol: and uri:/metadata: in
\* any casing and return the value up to the next comma, quote, brace or
\* whitespace; a name of 100 or more characters, a symbol of 20 or more, or a
\* uri that starts with none of http, ipfs, ar:// is absent; the example line
\* yields FooCoin, FOO and https://x/y.json.
C32_MetadataFromLogs ==
    /\ pa.pc \in {"logs_scanned", "tx_scanned"} => pa.md_logs = ExpectedMetadata(pa.recipe)
    /\ pa.pc = "tx_scanned" => pa.md_tx = ExpectedMetadata(pa.recipe)

\* ------------------------------------------------------------------------
\* Equal slots and the token row
\* ------------------------------------------------------------------------
\* C33: a holder update whose slot equals the stored slot is accepted: when a
\* trade, processed for the first time, is applied to a holder whose stored
\* slot is the trade's slot, the stored balance afterwards reflects the trade
\* too.
C33_EqualSlotAccepted ==
    [][\A w \in SingleWorker :
         CompletesTrade(w) =>
            LET trade == Unwrap(wk[w].trade)
                got == GetTokenHolder(holders, trade.token_mint, trade.user_wallet)
            IN  (IsSome(got) /\ Unwrap(got).last_updated_slot = trade.slot
                    /\ hist.tx = trade.signature /\ hist.runs = 1)
                    => StoredBalance(holders', trade)
                          = ExpectedBalance(trade, Unwrap(got).balance)]_vars

\* C34: every applied trade sets the stored progress to
\* (virtual_sol_reserves / 85 SOL) * 100 and sets complete when that is at
\* least 100, also when the trade's virtual token reserves are zero.
C34_ProgressFromEveryTrade ==
    [][\A w \in SingleWorker :
         (wk[w].pc = "upsert_token" /\ wk'[w].pc = "get_holder") =>
            LET trade == Unwrap(wk[w].trade)
                row == Unwrap(GetToken(tokens', trade.token_mint))
                progress == BondingCurveProgress(trade.virtual_sol_reserves)
            IN  /\ row.bonding_curve_progress = progress
                /\ progress >= Dec(HUNDRED) => row.complete]_vars

\* w writes the token row of the trade it is processing
WritesTradeToken(w) == wk[w].pc = "upsert_token" /\ wk'[w].pc = "get_holder"

\* C37: the token row is not slot-guarded: after the token row of a trade is
\* written, the stored virtual SOL and token reserves are those of that
\* trade, whatever the slots of the trades processed before.
C37_ReservesOfLastTrade ==
    [][\A w \in SingleWorker :
         WritesTradeToken(w) =>
            LET trade == Unwrap(wk[w].trade)
                row == Unwrap(GetToken(tokens', trade.token_mint))
            IN  /\ row.virtual_sol_reserves = trade.virtual_sol_reserves
                /\ row.virtual_token_reserves = trade.virtual_token_reserves]_vars

\* the trade of slot 2 was processed after that of slot 6 and the row has the
\* reserves of the trade of slot 2
C37_Witness ==
    \E w \in SingleWorker :
        /\ wk[w].tx = "sigBuy" /\ wk[w].pc = "get_holder"
        /\ \E t \in trades : t.signature = "sigDrained" /\ t.slot > Unwrap(wk[w].trade).slot
        /\ \E r \in tokens :
              /\ r.mint_address = MINT_A
              /\ r.virtual_sol_reserves = Unwrap(wk[w].trade).virtual_sol_reserves
              /\ r.virtual_token_reserves = Unwrap(wk[w].trade).virtual_token_reserves
              /\ r.virtual_token_reserves # 0

PairTxIds == {"sigBuy", "sigLate"}

\* process_and_save run by every worker, one signature each at a time; the
\* steps of different workers interleave at the awaits
ConcurrentStep(w) ==
    \/ \E id \in PairTxIds : Receive(w, id)
    \/ GetSolPrice(w)
    \/ InsertTradeStep(w)
    \/ GetTokenStep(w)
    \/ UpsertTokenStep(w)
    \/ GetHolderStep(w)
    \/ UpsertHolderStep(w)

NextConcurrent == \E w \in Workers : ConcurrentStep(w)

SpecConcurrent == Init /\ [][NextConcurrent]_vars

\* C35: when the two trades have been reconciled, each once and without a
\* failed call, by workers whose steps interleave in any way, the stored
\* balance of the wallet is the one obtained by applying the two trades one
\* after the other in slot order.
C35_NoLostUpdate ==
    (/\ \A w \in Workers : wk[w].pc = "idle"
     /\ faults = 0
     /\ \A id \in PairTxIds : delivered[id] = 1)
    => LET ref == ProcessInSlotOrder(EmptyStore, PairTxIds)
       IN  CurrentBalance(GetTokenHolder(holders, MINT_A, WALLET_A))
             = CurrentBalance(GetTokenHolder(ref.holders, MINT_A, WALLET_A))
====
